---- MODULE Spec2Model ----
(***************************************************************************)
(* Statistical web application: the confidence-interval forms of the       *)
(* client (PairedMeanCI, TwoSampleCIComponent, BasicStatisticsTab) and the  *)
(* distribution endpoints of the server (server.js).                        *)
(*                                                                          *)
(* Numbers are fixed-point integers in thousandths (Scale = 1000): the JS   *)
(* double 2.333... is the integer 2333.  Infinity, -Infinity and NaN are    *)
(* three integers outside the range any computation reaches.               *)
(***************************************************************************)
EXTENDS Integers, Sequences, FiniteSets, TLC

VARIABLES mounted, last, paired, twoSample, basic, trace, availableDistributions, req, res, generator, listener

vars == <<mounted, last, paired, twoSample, basic, trace, availableDistributions, req, res, generator, listener>>

\* ------------------------------------------------------------------ bounds

\* Longest sample a form is given.
MaxLen == 3

\* Largest population variance typed into a variance field of the two-sample form.
MaxVariance == 1

\* Largest count a generate request asks for.
MaxCount == 2

\* ------------------------------------------------------------------ numbers

Scale == 10 * 10 * 10

Infinity == Scale * Scale * Scale
NegInfinity == -Infinity
NaN == Infinity + 1

\* The value of an argument that is not passed.
Undefined == Infinity + 2

isNaN(v) == v = NaN

isFinite(v) == v \notin {Infinity, NegInfinity, NaN}

\* n / d rounded to the nearest integer, halves away from zero (d > 0).
Round(n, d) ==
  IF n >= 0 THEN (2 * n + d) \div (2 * d) ELSE -((2 * (-n) + d) \div (2 * d))

\* a / b on fixed-point numbers.
Div(a, b) == Round(a * Scale, b)

\* a * b on fixed-point numbers.
Mul(a, b) == Round(a * b, Scale)

RECURSIVE IsqrtBetween(_, _, _)
IsqrtBetween(x, lo, hi) ==
  IF lo >= hi THEN lo
  ELSE LET mid == (lo + hi + 1) \div 2
       IN IF mid * mid <= x THEN IsqrtBetween(x, mid, hi)
          ELSE IsqrtBetween(x, lo, mid - 1)

\* Math.sqrt on a fixed-point number >= 0 (floor of the root, in thousandths).
Sqrt(a) == IsqrtBetween(a * Scale, 0, 40 * Scale)

RECURSIVE SumSeq(_)
\* Array.prototype.reduce((sum, val) => sum + val, 0)
SumSeq(s) == IF s = <<>> THEN 0 ELSE s[1] + SumSeq(Tail(s))

\* Number.MAX_VALUE, the largest finite number, brought to the range of the
\* fixed-point numbers: a sum above it is Infinity.
MaxValue == Infinity - 1

\* What takes part in arithmetic as NaN: NaN itself and undefined.
NotANumber(v) == v \in {NaN, Undefined}

\* a < b and a <= b on numbers: false when either side is NaN.
Less(a, b) == ~NotANumber(a) /\ ~NotANumber(b) /\ a < b

LessEq(a, b) == ~NotANumber(a) /\ ~NotANumber(b) /\ a <= b

\* a + b on numbers.
Plus(a, b) ==
  IF NotANumber(a) \/ NotANumber(b) THEN NaN
  ELSE IF ~isFinite(a) THEN (IF ~isFinite(b) /\ b # a THEN NaN ELSE a)
  ELSE IF ~isFinite(b) THEN b
  ELSE IF a + b > MaxValue THEN Infinity
  ELSE IF a + b < -MaxValue THEN NegInfinity
  ELSE a + b

\* a - b for a finite a.
Minus(a, b) ==
  IF NotANumber(b) THEN NaN
  ELSE IF b = Infinity THEN NegInfinity
  ELSE IF b = NegInfinity THEN Infinity
  ELSE a - b

\* a / n for a whole number n >= 0 that is not in fixed point.
Quotient(a, n) ==
  IF NotANumber(a) THEN NaN
  ELSE IF n = 0 THEN (IF a = 0 THEN NaN ELSE IF a > 0 THEN Infinity ELSE NegInfinity)
  ELSE IF ~isFinite(a) THEN a
  ELSE Round(a, n)

\* Math.pow(d, 2)
Square(d) == IF NotANumber(d) THEN NaN ELSE IF ~isFinite(d) THEN Infinity ELSE Mul(d, d)

\* Math.sqrt(v) for v >= 0.
SquareRoot(v) == IF NotANumber(v) THEN NaN ELSE IF ~isFinite(v) THEN v ELSE Sqrt(v)

\* data.reduce((a, b) => a + f(b), 0), given the sequence of the f(b).
RECURSIVE Reduce(_, _)
Reduce(acc, terms) == IF terms = <<>> THEN acc ELSE Reduce(Plus(acc, terms[1]), Tail(terms))

\* array[i] for a 0-based index i: undefined outside the array.
At(array, i) == IF i + 1 \in 1..Len(array) THEN array[i + 1] ELSE Undefined

\* ------------------------------------------------------------------ text input

\* Largest integer numeral that occurs in a text field.
MaxNumeral == 2 * 10

\* The decimal numerals of the confidence-level options.
DecimalTexts == [t \in {"0.90", "0.95", "0.99", "0.999"} |->
                   CASE t = "0.90" -> 900 [] t = "0.95" -> 950
                     [] t = "0.99" -> 990 [] OTHER -> 999]

\* parseFloat on one token: an integer numeral gives its value, a numeral
\* followed by other characters gives the numeral, anything else gives NaN.
parseFloat(s) ==
  IF s \in DOMAIN DecimalTexts THEN DecimalTexts[s]
  ELSE IF \E i \in 0..MaxNumeral : s = ToString(i)
    THEN Scale * (CHOOSE i \in 0..MaxNumeral : s = ToString(i))
  ELSE IF \E i \in 0..MaxNumeral : s = "-" \o ToString(i)
    THEN -Scale * (CHOOSE i \in 0..MaxNumeral : s = "-" \o ToString(i))
  ELSE IF \E i \in 0..MaxNumeral : s = ToString(i) \o "abc"
    THEN Scale * (CHOOSE i \in 0..MaxNumeral : s = ToString(i) \o "abc")
  ELSE NaN

\* A text is the list of its pieces between separators /[,\s]+/; the empty
\* text splits into one empty piece.
EmptyText == <<"">>
JunkText == <<"abc">>

BeforeBase == <<"10", "12", "14", "11", "9">>
AfterBase == <<"8", "11", "12", "9", "7">>

Prefix(base, k) == SubSeq(base, 1, k)

\* Sample lengths the forms are given: one value, and MaxLen values.
SampleLengths == {1, MaxLen}

BeforeTexts == {EmptyText, JunkText} \cup {Prefix(BeforeBase, k) : k \in SampleLengths}
AfterTexts == {EmptyText} \cup {Prefix(AfterBase, k) : k \in SampleLengths}

\* What <input type="number"> holds: nothing, or a numeral.
VarianceTexts(max) == {""} \cup {ToString(i) : i \in 0..max}

IntervalTypes == {"two-sided", "one-sided-lower", "one-sided-upper"}

Null == [null |-> TRUE]

Step(op, arg) == [op |-> op, arg |-> arg]

\* ------------------------------------------------------------------ utils/statistics

\* getZCriticalValue(level): the two-sided standard normal critical value,
\* z with P(|Z| <= z) = level.
getZCriticalValue(level) ==
  CASE level = 800 -> 1282
    [] level = 900 -> 1645
    [] level = 950 -> 1960
    [] level = 980 -> 2326
    [] level = 990 -> 2576
    [] level = 998 -> 3090
    [] level = 999 -> 3291
    [] OTHER -> NaN

\* Student t two-sided critical value with df degrees of freedom,
\* t with P(|T| <= t) = level; NaN without a degree of freedom.
tTable ==
  [l \in {800, 900, 950, 980, 990, 998, 999} |->
     CASE l = 800 -> <<3078, 1886, 1638, 1533, 1476, 1440, 1415, 1397>>
       [] l = 900 -> <<6314, 2920, 2353, 2132, 2015, 1943, 1895, 1860>>
       [] l = 950 -> <<12706, 4303, 3182, 2776, 2571, 2447, 2365, 2306>>
       [] l = 980 -> <<31821, 6965, 4541, 3747, 3365, 3143, 2998, 2896>>
       [] l = 990 -> <<63657, 9925, 5841, 4604, 4032, 3707, 3499, 3355>>
       [] l = 998 -> <<318309, 22327, 10215, 7173, 5893, 5208, 4785, 4501>>
       [] l = 999 -> <<636619, 31599, 12924, 8610, 6869, 5959, 5408, 5041>>]

getTCriticalValue(level, df) ==
  IF level \in DOMAIN tTable /\ df \in DOMAIN tTable[level] THEN tTable[level][df] ELSE NaN

\* Mean of a non-empty sample.
calculateMean(xs) == Round(SumSeq(xs), Len(xs))

\* Sum of squared deviations from the mean.
SumSquares(xs) ==
  LET m == calculateMean(xs)
  IN SumSeq([i \in 1..Len(xs) |-> Mul(xs[i] - m, xs[i] - m)])

\* Sample variance (divide by n - 1); NaN for a single value.
SampleVariance(xs) ==
  IF Len(xs) < 2 THEN NaN ELSE Round(SumSquares(xs), Len(xs) - 1)

\* Interval from an estimate and a margin, by interval type.
IntervalOf(estimate, margin, intervalType) ==
  CASE intervalType = "two-sided" -> <<estimate - margin, estimate + margin>>
    [] intervalType = "one-sided-lower" -> <<estimate - margin, Infinity>>
    [] OTHER -> <<NegInfinity, estimate + margin>>

\* Critical-value level of an interval type: c two-sided, 2c - 1 one-sided.
TailLevel(confidence, intervalType) ==
  IF intervalType = "two-sided" THEN confidence ELSE 2 * confidence - Scale

\* Standard error and degrees of freedom of the t interval, by method;
\* <<NaN, 0>> where a sample variance does not exist.
TStandardError(xs, ys, method) ==
  LET n1 == Len(xs)
      n2 == Len(ys)
      v1 == SampleVariance(xs)
      v2 == SampleVariance(ys)
  IN CASE method = "paired" ->
            LET d == [i \in 1..n1 |-> xs[i] - ys[i]]
            IN IF n1 < 2 THEN <<NaN, 0>>
               ELSE <<Sqrt(Round(SampleVariance(d), n1)), n1 - 1>>
       [] method = "pooled" ->
            IF n1 < 2 \/ n2 < 2 THEN <<NaN, 0>>
            ELSE LET sp == Round((n1 - 1) * v1 + (n2 - 1) * v2, n1 + n2 - 2)
                 IN <<Sqrt(Round(sp, n1) + Round(sp, n2)), n1 + n2 - 2>>
       [] OTHER ->
            IF n1 < 2 \/ n2 < 2 THEN <<NaN, 0>>
            ELSE LET a == Round(v1, n1)
                     b == Round(v2, n2)
                     den == (a * a) \div (n1 - 1) + (b * b) \div (n2 - 1)
                 IN IF den = 0 THEN <<NaN, 0>>
                    ELSE <<Sqrt(a + b), ((a + b) * (a + b)) \div den>>

\* calculateTwoSampleConfidenceInterval(xs, ys, confidence, {method, intervalType}):
\* the t interval for the difference of two means.
calculateTwoSampleConfidenceInterval(xs, ys, confidence, method, intervalType) ==
  LET meanDiff == IF method = "paired"
                    THEN calculateMean([i \in 1..Len(xs) |-> xs[i] - ys[i]])
                    ELSE calculateMean(xs) - calculateMean(ys)
      sd == TStandardError(xs, ys, method)
      crit == getTCriticalValue(TailLevel(confidence, intervalType), sd[2])
      ok == ~isNaN(sd[1]) /\ ~isNaN(crit)
      margin == IF ok THEN Mul(crit, sd[1]) ELSE NaN
      ci == IF ok THEN IntervalOf(meanDiff, margin, intervalType) ELSE <<NaN, NaN>>
  IN [lower |-> ci[1], upper |-> ci[2], marginOfError |-> margin,
      method |-> "t:" \o method, criticalValue |-> crit, meanDiff |-> meanDiff]

\* calculateOneSampleMeanCI(data, confidenceLevel, knownVariance?): the two-sided
\* interval for one mean, z with standard error sqrt(variance / n) when the
\* variance is passed, t with s / sqrt(n) and n - 1 degrees of freedom when not.
calculateOneSampleMeanCI(data, confidenceLevel, knownVariance) ==
  LET n == Len(data)
      mean == calculateMean(data)
      known == knownVariance # Undefined
      se == IF known THEN Sqrt(Round(knownVariance, n))
            ELSE IF n < 2 THEN NaN
            ELSE Sqrt(Round(SampleVariance(data), n))
      crit == IF known THEN getZCriticalValue(confidenceLevel)
              ELSE getTCriticalValue(confidenceLevel, n - 1)
      ok == ~isNaN(se) /\ ~isNaN(crit)
      margin == IF ok THEN Mul(crit, se) ELSE NaN
  IN [lowerBound |-> IF ok THEN mean - margin ELSE NaN,
      upperBound |-> IF ok THEN mean + margin ELSE NaN,
      marginOfError |-> margin,
      method |-> IF known THEN "z" ELSE "t",
      criticalValue |-> crit]

\* ------------------------------------------------------------------ PairedMeanCI

PairedConfidenceOptions == {"0.90", "0.95", "0.99", "0.999"}

PairedVarianceTexts == VarianceTexts(2 * MaxVariance)

\* useState initial values of PairedMeanCI.
PairedInit ==
  [beforeData |-> EmptyText, afterData |-> EmptyText, confidenceLevel |-> "0.95",
   intervalType |-> "two-sided", knownVariance |-> FALSE, populationVariance |-> "",
   result |-> Null, error |-> ""]

\* parseData of PairedMeanCI: drop blank pieces, parseFloat the rest, throw on NaN.
PairedParseData(dataStr) ==
  LET pieces == SelectSeq(dataStr, LAMBDA t : t # "")
      nums == [i \in 1..Len(pieces) |-> parseFloat(pieces[i])]
  IN IF \E i \in 1..Len(nums) : isNaN(nums[i])
       THEN [threw |-> TRUE, value |-> <<>>]
       ELSE [threw |-> FALSE, value |-> nums]

\* Mutant: the one-sided level is not transformed.
PairedCriticalLevelUntransformed(confidence, intervalType) == confidence

\* The level the critical value of the known-variance branch is asked at.
PairedCriticalLevel(confidence, intervalType) ==
  IF intervalType = "two-sided" THEN confidence ELSE 2 * confidence - Scale

\* lower and upper of the known-variance branch.
PairedBounds(meanDiff, marginOfError, intervalType) ==
  IF intervalType = "two-sided" THEN <<meanDiff - marginOfError, meanDiff + marginOfError>>
  ELSE IF intervalType = "one-sided-lower" THEN <<NegInfinity, meanDiff + marginOfError>>
  ELSE <<meanDiff - marginOfError, Infinity>>

\* Mutant: the differences are taken the other way round.
PairedDifferencesReversed(before, after) == [i \in 1..Len(before) |-> after[i] - before[i]]

\* before.map((x, i) => x - after[i])
PairedDifferences(before, after) == [i \in 1..Len(before) |-> before[i] - after[i]]

\* Mutant: the z branch is taken for large samples only.
PairedKnownBranchLargeSample(f) == f.knownVariance /\ Len(f.beforeData) >= 30

\* if (knownVariance): the z branch is taken.
PairedKnownBranch(f) == f.knownVariance

\* Mutant: a variance of 0 is accepted.
PairedVarianceInvalidBelowZero(variance) == isNaN(variance) \/ variance < 0

\* isNaN(variance) || variance <= 0
PairedVarianceInvalid(variance) == isNaN(variance) \/ variance <= 0

\* The known-variance branch of handleCalculate, after validation.
PairedKnownVariance(before, after, confidence, intervalType, variance) ==
  LET differences == PairedDifferences(before, after)
      meanDiff == Round(SumSeq(differences), Len(differences))
      standardError == Div(Sqrt(variance), Sqrt(Scale * Len(differences)))
      level == PairedCriticalLevel(confidence, intervalType)
      criticalValue == getZCriticalValue(level)
      marginOfError == Mul(criticalValue, standardError)
      bounds == PairedBounds(meanDiff, marginOfError, intervalType)
  IN [result |-> [lower |-> bounds[1], upper |-> bounds[2],
                  marginOfError |-> marginOfError, method |-> "paired-z-known-variance",
                  criticalValue |-> criticalValue, meanDiff |-> meanDiff,
                  intervalType |-> intervalType],
      error |-> "",
      trace |-> <<Step("differences", Len(differences)), Step("meanDiff", meanDiff),
                  Step("standardError", standardError),
                  Step("getZCriticalValue", level)>>]

\* Mutant: the catch block shows no message.
ThrownSilently(message) == [result |-> Null, error |-> "", trace |-> <<>>]

\* catch: the message is shown and no result is.
Thrown(message) == [result |-> Null, error |-> message, trace |-> <<>>]

\* handleCalculate of PairedMeanCI on form state f: the result, the error and
\* the computations made.
PairedHandleCalculate(f) ==
  LET b == PairedParseData(f.beforeData)
      a == PairedParseData(f.afterData)
      before == b.value
      after == a.value
      confidence == parseFloat(f.confidenceLevel)
      variance == parseFloat(f.populationVariance)
  IN IF b.threw \/ a.threw THEN Thrown("Invalid data format, please enter numbers")
     ELSE IF Len(before) = 0 \/ Len(after) = 0 THEN Thrown("Data cannot be empty")
     ELSE IF Len(before) # Len(after)
       THEN Thrown("Before and after datasets must have the same length")
     ELSE IF PairedKnownBranch(f)
       THEN IF PairedVarianceInvalid(variance)
              THEN Thrown("Population variance must be a positive number")
              ELSE PairedKnownVariance(before, after, confidence, f.intervalType, variance)
     ELSE [result |-> [intervalType |-> f.intervalType] @@
                      calculateTwoSampleConfidenceInterval(
                        before, after, confidence, "paired", f.intervalType),
           error |-> "",
           trace |-> <<Step("calculateTwoSampleConfidenceInterval", 0)>>]

\* One of the selects, the switch or the variance field of PairedMeanCI is changed.
PairedSetField ==
  /\ mounted = "PairedMeanCI"
  /\ last' = "edit"
  /\ \/ \E v \in PairedConfidenceOptions : paired' = [paired EXCEPT !.confidenceLevel = v]
     \/ \E v \in IntervalTypes : paired' = [paired EXCEPT !.intervalType = v]
     \/ \E v \in BOOLEAN : paired' = [paired EXCEPT !.knownVariance = v]
     \/ \E v \in PairedVarianceTexts : paired' = [paired EXCEPT !.populationVariance = v]
  /\ UNCHANGED <<mounted, twoSample, basic, trace, availableDistributions, req, res, generator, listener>>

\* Mutant: the catch block shows the message and leaves the result as it is.
PairedCalculateKeepingResult ==
  /\ mounted = "PairedMeanCI"
  /\ last' = "calculate"
  /\ LET out == PairedHandleCalculate(paired)
     IN /\ paired' = [paired EXCEPT !.result = IF out.error # "" THEN @ ELSE out.result,
                                    !.error = out.error]
        /\ trace' = out.trace
  /\ UNCHANGED <<mounted, twoSample, basic, availableDistributions, req, res, generator, listener>>

\* The Calculate button of PairedMeanCI.
PairedCalculate ==
  /\ mounted = "PairedMeanCI"
  /\ last' = "calculate"
  /\ LET out == PairedHandleCalculate(paired)
     IN /\ paired' = [paired EXCEPT !.result = out.result, !.error = out.error]
        /\ trace' = out.trace
  /\ UNCHANGED <<mounted, twoSample, basic, availableDistributions, req, res, generator, listener>>

\* ------------------------------------------------------------------ TwoSampleCIComponent

\* The <option> values of the confidence-level select (0.90, 0.95, 0.99).
ConfidenceOptions == {900, 950, 990}

Methods == {"pooled", "welch", "paired"}

TwoSampleVarianceTexts == VarianceTexts(MaxVariance)

\* A null error (useState<string | null>(null)).
NullError == "<null>"

\* useState initial values of TwoSampleCIComponent.
TwoSampleInit ==
  [data1 |-> EmptyText, data2 |-> EmptyText, confidenceLevel |-> 950, method |-> "welch",
   intervalType |-> "two-sided", knownVariance |-> FALSE,
   populationVariance1 |-> "", populationVariance2 |-> "",
   result |-> Null, error |-> NullError]

\* parseData of TwoSampleCIComponent on a text that is not a JSON array:
\* drop blank pieces, parseFloat the rest, drop the NaN.
TwoSampleParseData(input) ==
  LET pieces == SelectSeq(input, LAMBDA t : t # "")
      nums == [i \in 1..Len(pieces) |-> parseFloat(pieces[i])]
  IN SelectSeq(nums, LAMBDA v : ~isNaN(v))

\* The level zCritical is asked at, in both known-variance branches.
TwoSampleCriticalLevel(confidenceLevel, intervalType) ==
  IF intervalType = "two-sided" THEN confidenceLevel ELSE 2 * confidenceLevel - Scale

\* Mutant: the margin is applied with the signs exchanged.
TwoSampleBoundsExchanged(meanDiff, marginOfError, intervalType) ==
  IF intervalType = "two-sided" THEN <<meanDiff + marginOfError, meanDiff - marginOfError>>
  ELSE IF intervalType = "one-sided-lower" THEN <<meanDiff + marginOfError, Infinity>>
  ELSE <<NegInfinity, meanDiff - marginOfError>>

\* lower and upper of the known-variance branches.
TwoSampleBounds(meanDiff, marginOfError, intervalType) ==
  IF intervalType = "two-sided" THEN <<meanDiff - marginOfError, meanDiff + marginOfError>>
  ELSE IF intervalType = "one-sided-lower" THEN <<meanDiff - marginOfError, Infinity>>
  ELSE IF intervalType = "one-sided-upper" THEN <<NegInfinity, meanDiff + marginOfError>>
  ELSE <<NegInfinity, Infinity>>

TwoSampleResult(bounds, marginOfError, label, zCritical, meanDiff, mean1, mean2, n1, n2, t) ==
  [lower |-> bounds[1], upper |-> bounds[2], marginOfError |-> marginOfError,
   method |-> label, criticalValue |-> zCritical, meanDiff |-> meanDiff,
   mean1 |-> mean1, mean2 |-> mean2, n1 |-> n1, n2 |-> n2, intervalType |-> t]

\* dataset1.map((val, i) => val - dataset2[i])
TwoSampleDifferences(dataset1, dataset2) ==
  [i \in 1..Len(dataset1) |-> dataset1[i] - dataset2[i]]

\* if (knownVariance): the z branches are taken.
TwoSampleKnownBranch(f) == f.knownVariance

\* Mutant: a variance of 0 is accepted.
TwoSampleVarianceInvalidBelowZero(v) == isNaN(v) \/ v < 0

\* isNaN(var1) || var1 <= 0, and the same for var2
TwoSampleVarianceInvalid(v) == isNaN(v) \/ v <= 0

\* The paired known-variance branch of calculate, after validation.
TwoSamplePairedKnownVariance(dataset1, dataset2, confidenceLevel, intervalType, var1, var2) ==
  LET differences == TwoSampleDifferences(dataset1, dataset2)
      meanDiff == Round(SumSeq(differences), Len(differences))
      varDiff == var1 + var2
      standardError == Sqrt(Round(varDiff, Len(differences)))
      level == TwoSampleCriticalLevel(confidenceLevel, intervalType)
      zCritical == getZCriticalValue(level)
      marginOfError == Mul(zCritical, standardError)
      mean1 == Round(SumSeq(dataset1), Len(dataset1))
      mean2 == Round(SumSeq(dataset2), Len(dataset2))
  IN [result |-> TwoSampleResult(TwoSampleBounds(meanDiff, marginOfError, intervalType),
                                 marginOfError, "Paired Samples Z-test (Known Variance)",
                                 zCritical, meanDiff, mean1, mean2,
                                 Len(dataset1), Len(dataset2), intervalType),
      error |-> NullError,
      trace |-> <<Step("differences", Len(differences)), Step("meanDiff", meanDiff),
                  Step("standardError", standardError), Step("getZCriticalValue", level),
                  Step("mean1", mean1), Step("mean2", mean2)>>]

\* The independent-samples known-variance branch of calculate, after validation.
TwoSampleIndependentKnownVariance(dataset1, dataset2, confidenceLevel, method, intervalType, var1, var2) ==
  LET mean1 == Round(SumSeq(dataset1), Len(dataset1))
      mean2 == Round(SumSeq(dataset2), Len(dataset2))
      meanDiff == mean1 - mean2
      standardError == Sqrt(Round(var1, Len(dataset1)) + Round(var2, Len(dataset2)))
      level == TwoSampleCriticalLevel(confidenceLevel, intervalType)
      zCritical == getZCriticalValue(level)
      marginOfError == Mul(zCritical, standardError)
      label == IF method = "pooled"
                 THEN "Two Sample Z-test (Pooled) with Known Variance"
                 ELSE "Two Sample Z-test (Welch) with Known Variance"
  IN [result |-> TwoSampleResult(TwoSampleBounds(meanDiff, marginOfError, intervalType),
                                 marginOfError, label, zCritical, meanDiff, mean1, mean2,
                                 Len(dataset1), Len(dataset2), intervalType),
      error |-> NullError,
      trace |-> <<Step("mean1", mean1), Step("mean2", mean2), Step("meanDiff", meanDiff),
                  Step("standardError", standardError),
                  Step("getZCriticalValue", level)>>]

\* The unknown-variance branch of calculate.
TwoSampleUnknownVariance(dataset1, dataset2, confidenceLevel, method, intervalType) ==
  LET ciResult == calculateTwoSampleConfidenceInterval(
                    dataset1, dataset2, confidenceLevel, method, intervalType)
      mean1 == Round(SumSeq(dataset1), Len(dataset1))
      mean2 == Round(SumSeq(dataset2), Len(dataset2))
  IN [result |-> [mean1 |-> mean1, mean2 |-> mean2, n1 |-> Len(dataset1),
                  n2 |-> Len(dataset2), intervalType |-> intervalType] @@ ciResult,
      error |-> NullError,
      trace |-> <<Step("calculateTwoSampleConfidenceInterval", 0),
                  Step("mean1", mean1), Step("mean2", mean2)>>]

\* calculate of TwoSampleCIComponent on form state f: the result, the error
\* and the computations made.
TwoSampleCalculateOutcome(f) ==
  LET dataset1 == TwoSampleParseData(f.data1)
      dataset2 == TwoSampleParseData(f.data2)
      var1 == parseFloat(f.populationVariance1)
      var2 == parseFloat(f.populationVariance2)
  IN IF Len(dataset1) = 0 \/ Len(dataset2) = 0 THEN Thrown("Dataset cannot be empty")
     ELSE IF f.method = "paired" /\ Len(dataset1) # Len(dataset2)
       THEN Thrown("Paired samples must have the same length")
     ELSE IF TwoSampleKnownBranch(f)
       THEN IF TwoSampleVarianceInvalid(var1)
              THEN Thrown("Population variance for dataset 1 must be a positive number")
            ELSE IF TwoSampleVarianceInvalid(var2)
              THEN Thrown("Population variance for dataset 2 must be a positive number")
            ELSE IF f.method = "paired"
              THEN TwoSamplePairedKnownVariance(dataset1, dataset2, f.confidenceLevel,
                                                f.intervalType, var1, var2)
            ELSE TwoSampleIndependentKnownVariance(dataset1, dataset2, f.confidenceLevel,
                                                   f.method, f.intervalType, var1, var2)
     ELSE TwoSampleUnknownVariance(dataset1, dataset2, f.confidenceLevel, f.method,
                                   f.intervalType)

\* One of the selects, the switch or a variance field of TwoSampleCIComponent is
\* changed.
TwoSampleSetField ==
  /\ mounted = "TwoSampleCIComponent"
  /\ last' = "edit"
  /\ \/ \E v \in ConfidenceOptions : twoSample' = [twoSample EXCEPT !.confidenceLevel = v]
     \/ \E v \in Methods : twoSample' = [twoSample EXCEPT !.method = v]
     \/ \E v \in IntervalTypes : twoSample' = [twoSample EXCEPT !.intervalType = v]
     \/ \E v \in BOOLEAN : twoSample' = [twoSample EXCEPT !.knownVariance = v]
     \/ \E v \in TwoSampleVarianceTexts :
          twoSample' = [twoSample EXCEPT !.populationVariance1 = v]
     \/ \E v \in TwoSampleVarianceTexts :
          twoSample' = [twoSample EXCEPT !.populationVariance2 = v]
  /\ UNCHANGED <<mounted, paired, basic, trace, availableDistributions, req, res, generator, listener>>

\* The Calculate button of TwoSampleCIComponent.
TwoSampleCalculate ==
  /\ mounted = "TwoSampleCIComponent"
  /\ last' = "calculate"
  /\ LET out == TwoSampleCalculateOutcome(twoSample)
     IN /\ twoSample' = [twoSample EXCEPT !.result = out.result,
                                          !.error = out.error]
        /\ trace' = out.trace
  /\ UNCHANGED <<mounted, paired, basic, availableDistributions, req, res, generator, listener>>

\* ------------------------------------------------------------------ BasicStatisticsTab

\* The dataset prop: no data, one value, MaxLen values.
BasicDatasets ==
  {<<>>} \cup {[i \in 1..k |-> parseFloat(BeforeBase[i])] : k \in SampleLengths}

\* What the NumberInput of the population variance hands to onChange.
BasicVarianceTexts == {"", "-", "-1"} \cup {ToString(i) : i \in 0..MaxVariance}

\* useState initial values of BasicStatisticsTab, with the dataset prop.
BasicInit(dataset) ==
  [dataset |-> dataset,
   ciOptions |-> [confidenceLevel |-> 950, isNormal |-> FALSE, knownVariance |-> FALSE,
                  populationVariance |-> 0],
   stats |-> Null]

\* Mutant: the population variance is passed whenever the switch is on.
BasicKnownVarianceArgumentUnchecked(ciOptions) ==
  IF ciOptions.knownVariance THEN ciOptions.populationVariance ELSE Undefined

\* ciOptions.knownVariance && ciOptions.populationVariance > 0
\*   ? ciOptions.populationVariance : undefined
BasicKnownVarianceArgument(ciOptions) ==
  IF ciOptions.knownVariance
     /\ ~isNaN(ciOptions.populationVariance) /\ ciOptions.populationVariance > 0
    THEN ciOptions.populationVariance
    ELSE Undefined

RECURSIVE MinOf(_)
MinOf(xs) == IF Len(xs) = 1 THEN xs[1]
             ELSE LET m == MinOf(Tail(xs)) IN IF xs[1] <= m THEN xs[1] ELSE m

RECURSIVE MaxOf(_)
MaxOf(xs) == IF Len(xs) = 1 THEN xs[1]
             ELSE LET m == MaxOf(Tail(xs)) IN IF xs[1] >= m THEN xs[1] ELSE m

\* calculateStats of BasicStatisticsTab on a non-empty dataset: the confidence
\* interval of the mean and the minimum, maximum and range of the sorted data
\* (the descriptive values stats takes over from utils/statistics or from the
\* basicStats prop are left out).
BasicCalculateStats(data, ciOptions) ==
  LET arg == BasicKnownVarianceArgument(ciOptions)
      ciResult == calculateOneSampleMeanCI(data, ciOptions.confidenceLevel, arg)
      min == MinOf(data)
      max == MaxOf(data)
  IN [stats |-> [min |-> min, max |-> max, range |-> max - min,
                 confidenceInterval |->
                   [lower |-> ciResult.lowerBound, upper |-> ciResult.upperBound,
                    marginOfError |-> ciResult.marginOfError, method |-> ciResult.method,
                    criticalValue |-> ciResult.criticalValue]],
      trace |-> <<Step("calculateOneSampleMeanCI", arg)>>]

\* useEffect on [dataset, ciOptions, propsBasicStats]: statistics are calculated
\* for a dataset that is not empty.
BasicEffect(b) ==
  IF Len(b.dataset) > 0
    THEN LET out == BasicCalculateStats(b.dataset, b.ciOptions)
         IN [next |-> [b EXCEPT !.stats = out.stats], trace |-> out.trace]
    ELSE [next |-> b, trace |-> <<>>]

\* The effect after the first render.
BasicMount ==
  /\ mounted = "BasicStatisticsTab"
  /\ last = "init"
  /\ LET out == BasicEffect(basic)
     IN basic' = out.next /\ trace' = out.trace
  /\ last' = "calculate"
  /\ UNCHANGED <<mounted, paired, twoSample, availableDistributions, req, res, generator, listener>>

\* handleCIOptionChange(field, value), with the effect its setCiOptions triggers;
\* the controls are rendered once stats is set.
BasicCIOptionChange ==
  /\ mounted = "BasicStatisticsTab"
  /\ basic.stats # Null
  /\ \E opts \in
         {[basic.ciOptions EXCEPT !.confidenceLevel = v] : v \in ConfidenceOptions}
         \cup {[basic.ciOptions EXCEPT !.isNormal = v] : v \in BOOLEAN}
         \cup {[basic.ciOptions EXCEPT !.knownVariance = v] : v \in BOOLEAN}
         \cup {[basic.ciOptions EXCEPT
                  !.populationVariance = parseFloat(IF v = "" THEN "0" ELSE v)] :
                v \in BasicVarianceTexts} :
       LET out == BasicEffect([basic EXCEPT !.ciOptions = opts])
       IN basic' = out.next /\ trace' = out.trace
  /\ last' = "calculate"
  /\ UNCHANGED <<mounted, paired, twoSample, availableDistributions, req, res, generator, listener>>

\* ------------------------------------------------------------------ the interval forms

\* One of the three components is on the page: a form with its samples typed in
\* and every other field as useState leaves it, or the statistics tab with its
\* dataset prop.
InitCI ==
  /\ mounted \in {"PairedMeanCI", "TwoSampleCIComponent", "BasicStatisticsTab"}
  /\ last = "init"
  /\ \E b \in BeforeTexts, a \in AfterTexts :
       /\ paired = IF mounted = "PairedMeanCI"
                     THEN [PairedInit EXCEPT !.beforeData = b, !.afterData = a]
                     ELSE PairedInit
       /\ twoSample = IF mounted = "TwoSampleCIComponent"
                        THEN [TwoSampleInit EXCEPT !.data1 = b, !.data2 = a]
                        ELSE TwoSampleInit
  /\ \E d \in BasicDatasets :
       basic = IF mounted = "BasicStatisticsTab" THEN BasicInit(d) ELSE BasicInit(<<>>)
  /\ trace = <<>>
  /\ availableDistributions = <<>>
  /\ req = Null
  /\ res = Null
  /\ generator = Null
  /\ listener = Null

NextCI ==
  \/ PairedSetField
  \/ PairedCalculate
  \/ TwoSampleSetField
  \/ TwoSampleCalculate
  \/ BasicMount
  \/ BasicCIOptionChange

SpecCI == InitCI /\ [][NextCI]_vars

\* ------------------------------------------------------------------ server.js: the catalog

Descriptor(name, displayName, description, parameters, constraints) ==
  [name |-> name, displayName |-> displayName, description |-> description,
   parameters |-> parameters, constraints |-> constraints]

\* const availableDistributions = [...]
Catalog ==
  << Descriptor("normal", "Normal Distribution",
                "Gaussian distribution characterized by mean and standard deviation",
                <<"mu", "sigma">>, [mu |-> "any", sigma |-> ">0"]),
     Descriptor("uniform", "Uniform Distribution",
                "Constant probability over a specified range",
                <<"a", "b">>, [a |-> "any", b |-> ">a"]),
     Descriptor("binomial", "Binomial Distribution",
                "Discrete probability of successes in a fixed number of trials",
                <<"n", "p">>, [n |-> "integer>0", p |-> "0<=p<=1"]),
     Descriptor("poisson", "Poisson Distribution",
                "Discrete probability of a given number of events occurring",
                <<"lambda">>, [lambda |-> ">0"]),
     Descriptor("exponential", "Exponential Distribution",
                "Continuous probability describing the time between events",
                <<"lambda">>, [lambda |-> ">0"]),
     Descriptor("gamma", "Gamma Distribution",
                "Two-parameter family of continuous probability distributions",
                <<"shape", "rate">>, [shape |-> ">0", rate |-> ">0"]) >>

\* availableDistributions.find(d => d.name === name): the descriptors of that
\* name, in catalog order (the first is the one found).
Find(catalog, name) == SelectSeq(catalog, LAMBDA d : d.name = name)

\* ------------------------------------------------------------------ server.js: request values

\* A JSON value of the body: absent, a number, or an object of numbers.
Absent == [kind |-> "undefined"]
NumberValue(v) == [kind |-> "number", value |-> v]
ObjectValue(fields) == [kind |-> "object", fields |-> fields]
ArrayValue(items) == [kind |-> "array", items |-> items]
StringValue(text) == [kind |-> "string", text |-> text]

\* The number a body value is compared as: a text that is no numeral is NaN.
ToNumber(v) == IF v.kind = "number" THEN v.value ELSE NaN

\* !v for a body value (no number of the requests below is 0 where it is tested
\* for presence).
Falsy(v) == v.kind = "undefined" \/ (v.kind = "number" /\ v.value = 0)

Half == Scale \div 2

ParameterObjects ==
  { [mu |-> 0, sigma |-> Scale], [mu |-> 0, sigma |-> 0], [mu |-> 0],
    [a |-> 0, b |-> Scale], [a |-> Scale, b |-> Scale],
    [n |-> 2 * Scale, p |-> Half], [n |-> 2 * Scale + Half, p |-> Half],
    [n |-> 2 * Scale, p |-> Scale + Half], [n |-> 0, p |-> Half],
    [lambda |-> 2 * Scale], [lambda |-> 0],
    [shape |-> 2 * Scale, rate |-> Scale], [shape |-> 0, rate |-> Scale],
    [shape |-> 2 * Scale, rate |-> 0] }

\* The parameters sent with a name: none, a number, an object without the
\* distribution's parameters, and the objects that have exactly its parameters.
ParameterValues(name) ==
  {Absent, NumberValue(5 * Scale), ObjectValue([mu |-> 0])}
    \cup {ObjectValue(f) : f \in {g \in ParameterObjects :
             \E i \in 1..Len(Catalog) :
               /\ Catalog[i].name = name
               /\ DOMAIN g = {Catalog[i].parameters[j] : j \in 1..Len(Catalog[i].parameters)}}}

RequestNames ==
  {"normal", "uniform", "binomial", "poisson", "exponential", "gamma", "cauchy"}

\* The type of a calculate body; "" stands for a body without type.
RequestTypes == {"", "pdf", "pmf", "cdf", "quantile"}

XValues == {Absent, NumberValue(-Scale), NumberValue(2 * Scale)}

CountValues == {NumberValue(Scale * c) : c \in -1..MaxCount} \cup {StringValue("many")}

DataValues ==
  {Absent, NumberValue(5 * Scale), ArrayValue(<<>>)}
    \cup {ArrayValue(d) : d \in BasicDatasets \ {<<>>}}
    \cup {ArrayValue(<<3 * Scale, Scale, 2 * Scale, Scale>>)}
    \cup {ArrayValue(<<MaxValue, MaxValue>>)}

\* ------------------------------------------------------------------ server.js: helpers

\* Mutant: the constraints are not checked.
validateParametersPresenceOnly(distribution, parameters) ==
  /\ parameters.kind = "object"
  /\ \A i \in 1..Len(distribution.parameters) :
       distribution.parameters[i] \in DOMAIN parameters.fields

\* validateParameters(distribution, parameters); `param in parameters` throws for
\* a primitive, and the catch returns false.
validateParameters(distribution, parameters) ==
  IF parameters.kind # "object" THEN FALSE
  ELSE IF \E i \in 1..Len(distribution.parameters) :
            distribution.parameters[i] \notin DOMAIN parameters.fields
    THEN FALSE
  ELSE LET q == parameters.fields
       IN CASE distribution.name = "normal" -> q.sigma > 0
            [] distribution.name = "uniform" -> q.b > q.a
            [] distribution.name = "binomial" ->
                 q.n % Scale = 0 /\ q.n > 0 /\ q.p >= 0 /\ q.p <= Scale
            [] distribution.name \in {"poisson", "exponential"} -> q.lambda > 0
            [] distribution.name = "gamma" -> q.shape > 0 /\ q.rate > 0
            [] OTHER -> TRUE

RECURSIVE Insert(_, _)
Insert(x, sorted) ==
  IF sorted = <<>> THEN <<x>>
  ELSE IF x <= sorted[1] THEN <<x>> \o sorted
  ELSE <<sorted[1]>> \o Insert(x, Tail(sorted))

RECURSIVE SortAscending(_)
\* [...data].sort((a, b) => a - b)
SortAscending(data) ==
  IF data = <<>> THEN <<>> ELSE Insert(data[1], SortAscending(Tail(data)))

\* Mutant: the quartile index is taken from n - 1.
QuarterOfPrevious(n, q) == ((n - 1) * q) \div 4

\* Math.floor(n * q / 4) for q quarters.
FloorQuarter(n, q) == (n * q) \div 4

\* calculateStats(data) on an array of finite numbers, the empty one included.
calculateStats(data) ==
  LET n == Len(data)
      mean == Quotient(Reduce(0, data), n)
      sortedData == SortAscending(data)
      median == IF n % 2 = 0
                  THEN Quotient(Plus(At(sortedData, n \div 2 - 1), At(sortedData, n \div 2)), 2)
                  ELSE At(sortedData, n \div 2)
      variance == Quotient(Reduce(0, [i \in 1..n |-> Square(Minus(data[i], mean))]), n)
  IN [mean |-> mean, median |-> median, variance |-> variance, stdDev |-> SquareRoot(variance),
      min |-> At(sortedData, 0), max |-> At(sortedData, n - 1),
      q1 |-> At(sortedData, FloorQuarter(n, 1)), q3 |-> At(sortedData, FloorQuarter(n, 3)),
      count |-> n]

\* A call of a density, mass or cumulative function; its value is not evaluated.
Call(fn, args) == [fn |-> fn, args |-> args]

\* ------------------------------------------------------------------ server.js: samplers

\* Math.random() returns one of three values of [0, 1); a request's draws repeat a
\* pattern of two of them, not both 0.
Uniforms == {0, Half, 3 * (Scale \div 4)}

DrawPatterns == {pat \in Uniforms \X Uniforms : pat # <<0, 0>>}

\* The k-th draw of the request (k = 1, 2, ...).
Draw(pat, k) == pat[((k - 1) % Len(pat)) + 1]

\* Math.log, Math.cos(2 * Math.PI * u) and Math.exp(-lambda) on the values that occur.
Log(u) == CASE u = Scale \div 4 -> -1386
            [] u = Scale \div 2 -> -693
            [] u = 3 * (Scale \div 4) -> -288
            [] u = Scale -> 0
            [] OTHER -> NegInfinity

CosTwoPi(u) == CASE u = 0 -> Scale
                 [] u = Scale \div 2 -> -Scale
                 [] OTHER -> 0

ExpMinus(lambda) == CASE lambda = Scale -> 368
                      [] lambda = 2 * Scale -> 135
                      [] lambda = 3 * Scale -> 50
                      [] OTHER -> NaN

\* Mutant: the draw is taken as it comes.
NextDraw(pat, k) == k

\* while (u === 0) u = Math.random(): the index of the first draw from k on that
\* is not 0.
RECURSIVE NonZeroDraw(_, _)
NonZeroDraw(pat, k) == IF Draw(pat, k) # 0 THEN k ELSE NonZeroDraw(pat, k + 1)

\* Math.sqrt(-2.0 * Math.log(u1)) * Math.cos(2.0 * Math.PI * u2); Math.log(0) is
\* -Infinity, and the product of Infinity with the cosine is Infinity or
\* -Infinity (the cosine of 3 * Math.PI / 2 evaluates to a negative number).
BoxMuller(u1, u2) ==
  IF u1 = 0 THEN (IF CosTwoPi(u2) > 0 THEN Infinity ELSE NegInfinity)
  ELSE Mul(Sqrt(-2 * Log(u1)), CosTwoPi(u2))

\* generateNormal(mu, sigma, count), drawing from the k-th draw on.
RECURSIVE generateNormal(_, _, _, _, _)
generateNormal(mu, sigma, count, pat, k) ==
  IF ~Less(0, count) THEN <<>>
  ELSE LET k1 == NonZeroDraw(pat, k)
           k2 == NonZeroDraw(pat, k1 + 1)
           u1 == Draw(pat, k1)
           u2 == Draw(pat, k2)
           z1 == BoxMuller(u1, u2)
       IN <<IF isFinite(z1) THEN Mul(z1, sigma) + mu ELSE z1>>
            \o generateNormal(mu, sigma, count - Scale, pat, k2 + 1)

\* generateUniform(a, b, count)
RECURSIVE generateUniform(_, _, _, _, _)
generateUniform(a, b, count, pat, k) ==
  IF ~Less(0, count) THEN <<>>
  ELSE <<a + Mul(Draw(pat, k), b - a)>> \o generateUniform(a, b, count - Scale, pat, k + 1)

\* The successes of trials j..n - 1 of one binomial variate.
RECURSIVE Successes(_, _, _, _, _)
Successes(j, n, pr, pat, k) ==
  IF j * Scale >= n THEN 0
  ELSE (IF Draw(pat, k) < pr THEN 1 ELSE 0) + Successes(j + 1, n, pr, pat, k + 1)

\* generateBinomial(n, p, count); n is an integer above 0.
RECURSIVE generateBinomial(_, _, _, _, _)
generateBinomial(n, pr, count, pat, k) ==
  IF ~Less(0, count) THEN <<>>
  ELSE <<Scale * Successes(0, n, pr, pat, k)>>
         \o generateBinomial(n, pr, count - Scale, pat, k + (n \div Scale))

\* while (p > l) { k++; p *= Math.random(); }: the number of draws made.
RECURSIVE PoissonDraws(_, _, _, _)
PoissonDraws(prod, l, pat, k) ==
  IF prod > l THEN 1 + PoissonDraws(Mul(prod, Draw(pat, k)), l, pat, k + 1) ELSE 0

\* generatePoisson(lambda, count)
RECURSIVE generatePoisson(_, _, _, _)
generatePoisson(lambda, count, pat, k) ==
  IF ~Less(0, count) THEN <<>>
  ELSE LET d == PoissonDraws(Scale, ExpMinus(lambda), pat, k)
       IN <<Scale * (d - 1)>> \o generatePoisson(lambda, count - Scale, pat, k + d)

\* generateExponential(lambda, count)
RECURSIVE generateExponential(_, _, _, _)
generateExponential(lambda, count, pat, k) ==
  IF ~Less(0, count) THEN <<>>
  ELSE <<Div(-Log(Scale - Draw(pat, k)), lambda)>>
         \o generateExponential(lambda, count - Scale, pat, k + 1)

\* ------------------------------------------------------------------ server.js: endpoints

Response(status, body) == [status |-> status, body |-> body]

ErrorBody(message) == [error |-> message]

Handled(response, calls) == [res |-> response, trace |-> calls]

\* Mutant: without a type the mass function is meant.
TypeOfDefaultPmf(body) == IF body.type = "" THEN "pmf" ELSE body.type

\* const { type = 'pdf' } = req.body
TypeOf(body) == IF body.type = "" THEN "pdf" ELSE body.type

\* The density or mass type and the functions of a distribution, as the switch of
\* the calculate endpoint has them; gamma has no cumulative function.
DensityType(name) == IF name \in {"binomial", "poisson"} THEN "pmf" ELSE "pdf"

DensityFunction(name) ==
  CASE name = "normal" -> "normalPDF" [] name = "uniform" -> "uniformPDF"
    [] name = "binomial" -> "binomialPMF" [] name = "poisson" -> "poissonPMF"
    [] name = "exponential" -> "exponentialPDF" [] OTHER -> "gammaPDF"

CumulativeFunction(name) ==
  CASE name = "normal" -> "normalCDF" [] name = "uniform" -> "uniformCDF"
    [] name = "binomial" -> "binomialCDF" [] name = "poisson" -> "poissonCDF"
    [] OTHER -> "exponentialCDF"

\* The arguments the switch passes after x.
FunctionArguments(name, q) ==
  CASE name = "normal" -> <<q.mu, q.sigma>>
    [] name = "uniform" -> <<q.a, q.b>>
    [] name = "binomial" -> <<q.n, q.p>>
    [] name \in {"poisson", "exponential"} -> <<q.lambda>>
    [] OTHER -> <<q.shape, q.rate>>

\* Mutant: the cumulative type is passed on for gamma as well.
CalculateSwitchGammaCdf(name, type, x, q) ==
  IF name \notin {"normal", "uniform", "binomial", "poisson", "exponential", "gamma"}
    THEN [ok |-> FALSE, error |-> "Calculation not implemented for this distribution"]
  ELSE IF type = DensityType(name)
    THEN [ok |-> TRUE, call |-> Call(DensityFunction(name), <<x>> \o FunctionArguments(name, q))]
  ELSE IF type = "cdf"
    THEN [ok |-> TRUE, call |-> Call(CumulativeFunction(name), <<x>> \o FunctionArguments(name, q))]
  ELSE [ok |-> FALSE, error |-> "Invalid calculation type"]

\* switch (name) of the calculate endpoint: the function called, or the 400 error.
CalculateSwitch(name, type, x, q) ==
  IF name \notin {"normal", "uniform", "binomial", "poisson", "exponential", "gamma"}
    THEN [ok |-> FALSE, error |-> "Calculation not implemented for this distribution"]
  ELSE IF type = DensityType(name)
    THEN [ok |-> TRUE, call |-> Call(DensityFunction(name), <<x>> \o FunctionArguments(name, q))]
  ELSE IF type = "cdf" /\ name # "gamma"
    THEN [ok |-> TRUE, call |-> Call(CumulativeFunction(name), <<x>> \o FunctionArguments(name, q))]
  ELSE IF name = "gamma"
    THEN [ok |-> FALSE, error |-> "Only PDF calculation available for gamma distribution"]
  ELSE [ok |-> FALSE, error |-> "Invalid calculation type"]

\* Mutant: the mass function calls factorial whatever the sign of k.
poissonPMFFactorialUnguarded(k) == <<k>>

\* The arguments of the calls of factorial made by poissonPMF(k, lambda):
\* if (k < 0) return 0 comes before the call.
poissonPMFFactorial(k) == IF k < 0 THEN <<>> ELSE <<k>>

\* The calls of factorial made by poissonCDF(k, lambda) from i on:
\* for (let i = 0; i <= k; i++) sum += poissonPMF(i, lambda).
RECURSIVE poissonCDFFactorial(_, _)
poissonCDFFactorial(i, k) ==
  IF i <= k THEN poissonPMFFactorial(i) \o poissonCDFFactorial(i + Scale, k) ELSE <<>>

\* The calls of factorial made while a function of the calculate switch runs; only
\* the Poisson functions reach factorial (binomialPMF uses comb, gammaPDF gamma).
FactorialCallsOf(call) ==
  LET ks == CASE call.fn = "poissonPMF" -> poissonPMFFactorial(call.args[1])
              [] call.fn = "poissonCDF" -> poissonCDFFactorial(0, call.args[1])
              [] OTHER -> <<>>
  IN [i \in 1..Len(ks) |-> Step("factorial", ks[i])]

\* Mutant: the name is looked up before the body is looked at.
HandleCalculateNameFirst(catalog, name, body) ==
  IF Find(catalog, name) = <<>>
    THEN Handled(Response(404, ErrorBody("Distribution not found")), <<>>)
  ELSE IF Falsy(body.parameters) \/ body.x.kind = "undefined"
    THEN Handled(Response(400, ErrorBody("Missing parameters or x value")), <<>>)
  ELSE IF ~validateParameters(Find(catalog, name)[1], body.parameters)
    THEN Handled(Response(400, ErrorBody("Invalid parameters")), <<>>)
  ELSE LET sw == CalculateSwitch(name, TypeOf(body), body.x.value, body.parameters.fields)
       IN IF ~sw.ok THEN Handled(Response(400, ErrorBody(sw.error)), <<>>)
          ELSE Handled(Response(200, [distribution |-> name, parameters |-> body.parameters,
                                      x |-> body.x, type |-> TypeOf(body),
                                      result |-> sw.call]),
                       <<Step(sw.call.fn, body.x.value)>> \o FactorialCallsOf(sw.call))

\* POST /api/distributions/:name/calculate
HandleCalculate(catalog, name, body) ==
  IF Falsy(body.parameters) \/ body.x.kind = "undefined"
    THEN Handled(Response(400, ErrorBody("Missing parameters or x value")), <<>>)
  ELSE IF Find(catalog, name) = <<>>
    THEN Handled(Response(404, ErrorBody("Distribution not found")), <<>>)
  ELSE IF ~validateParameters(Find(catalog, name)[1], body.parameters)
    THEN Handled(Response(400, ErrorBody("Invalid parameters")), <<>>)
  ELSE LET sw == CalculateSwitch(name, TypeOf(body), body.x.value, body.parameters.fields)
       IN IF ~sw.ok THEN Handled(Response(400, ErrorBody(sw.error)), <<>>)
          ELSE Handled(Response(200, [distribution |-> name, parameters |-> body.parameters,
                                      x |-> body.x, type |-> TypeOf(body),
                                      result |-> sw.call]),
                       <<Step(sw.call.fn, body.x.value)>> \o FactorialCallsOf(sw.call))

\* Mutant: gamma variates are drawn as exponential ones of the rate.
GenerateSwitchGammaSampled(name, q, count, pat) ==
  CASE name = "normal" ->
         [ok |-> TRUE, sampler |-> "generateNormal",
          data |-> generateNormal(q.mu, q.sigma, count, pat, 1)]
    [] name = "uniform" ->
         [ok |-> TRUE, sampler |-> "generateUniform",
          data |-> generateUniform(q.a, q.b, count, pat, 1)]
    [] name = "binomial" ->
         [ok |-> TRUE, sampler |-> "generateBinomial",
          data |-> generateBinomial(q.n, q.p, count, pat, 1)]
    [] name = "poisson" ->
         [ok |-> TRUE, sampler |-> "generatePoisson",
          data |-> generatePoisson(q.lambda, count, pat, 1)]
    [] name = "exponential" ->
         [ok |-> TRUE, sampler |-> "generateExponential",
          data |-> generateExponential(q.lambda, count, pat, 1)]
    [] name = "gamma" ->
         [ok |-> TRUE, sampler |-> "generateExponential",
          data |-> generateExponential(q.rate, count, pat, 1)]
    [] OTHER -> [ok |-> FALSE, error |-> "Generation not implemented for this distribution"]

\* switch (name) of the generate endpoint: the sampler called and its data, or the
\* 400 error.
GenerateSwitch(name, q, count, pat) ==
  CASE name = "normal" ->
         [ok |-> TRUE, sampler |-> "generateNormal",
          data |-> generateNormal(q.mu, q.sigma, count, pat, 1)]
    [] name = "uniform" ->
         [ok |-> TRUE, sampler |-> "generateUniform",
          data |-> generateUniform(q.a, q.b, count, pat, 1)]
    [] name = "binomial" ->
         [ok |-> TRUE, sampler |-> "generateBinomial",
          data |-> generateBinomial(q.n, q.p, count, pat, 1)]
    [] name = "poisson" ->
         [ok |-> TRUE, sampler |-> "generatePoisson",
          data |-> generatePoisson(q.lambda, count, pat, 1)]
    [] name = "exponential" ->
         [ok |-> TRUE, sampler |-> "generateExponential",
          data |-> generateExponential(q.lambda, count, pat, 1)]
    [] OTHER -> [ok |-> FALSE, error |-> "Generation not implemented for this distribution"]

\* POST /api/distributions/:name/generate; pat is what Math.random() returns
\* while the request is served.
HandleGenerate(catalog, name, body, pat) ==
  IF Falsy(body.parameters) \/ LessEq(ToNumber(body.count), 0)
    THEN Handled(Response(400, ErrorBody("Missing parameters or invalid count")), <<>>)
  ELSE IF Find(catalog, name) = <<>>
    THEN Handled(Response(404, ErrorBody("Distribution not found")), <<>>)
  ELSE IF ~validateParameters(Find(catalog, name)[1], body.parameters)
    THEN Handled(Response(400, ErrorBody("Invalid parameters")), <<>>)
  ELSE LET sw == GenerateSwitch(name, body.parameters.fields, ToNumber(body.count), pat)
       IN IF ~sw.ok THEN Handled(Response(400, ErrorBody(sw.error)), <<>>)
          ELSE Handled(Response(200, [distribution |-> name, parameters |-> body.parameters,
                                      count |-> body.count, data |-> sw.data,
                                      stats |-> calculateStats(sw.data)]),
                       <<Step(sw.sampler, ToNumber(body.count)),
                         Step("calculateStats", Len(sw.data) * Scale)>>)

\* POST /api/stats/describe
HandleDescribe(body) ==
  IF Falsy(body.data) \/ body.data.kind # "array" \/ Len(body.data.items) = 0
    THEN Handled(Response(400, ErrorBody("Invalid or empty dataset")), <<>>)
  ELSE Handled(Response(200, [dataLength |-> Len(body.data.items),
                              statistics |-> calculateStats(body.data.items)]),
               <<Step("calculateStats", Len(body.data.items) * Scale)>>)

Request(endpoint, name, body) == [endpoint |-> endpoint, name |-> name, body |-> body]

\* Mutant: listing hands the catalog over and leaves none behind.
ListDistributionsDraining ==
  /\ mounted = "server"
  /\ last' = "list"
  /\ req' = Request("list", "", Null)
  /\ res' = Response(200, [array |-> availableDistributions])
  /\ trace' = <<>>
  /\ availableDistributions' = <<>>
  /\ UNCHANGED <<mounted, paired, twoSample, basic, generator, listener>>

\* GET /api/distributions: the body is the catalog array.
ListDistributions ==
  /\ mounted = "server"
  /\ last' = "list"
  /\ req' = Request("list", "", Null)
  /\ res' = Response(200, [array |-> availableDistributions])
  /\ trace' = <<>>
  /\ UNCHANGED <<mounted, paired, twoSample, basic, availableDistributions, generator, listener>>

Calculate ==
  /\ mounted = "server"
  /\ \E name \in RequestNames, x \in XValues, type \in RequestTypes :
     \E q \in ParameterValues(name) :
       LET body == [parameters |-> q, x |-> x, type |-> type]
           h == HandleCalculate(availableDistributions, name, body)
       IN /\ req' = Request("calculate", name, body)
          /\ res' = h.res
          /\ trace' = h.trace
  /\ last' = "calculate"
  /\ UNCHANGED <<mounted, paired, twoSample, basic, availableDistributions, generator, listener>>

Generate ==
  /\ mounted = "server"
  /\ \E name \in RequestNames, count \in CountValues, pat \in DrawPatterns :
     \E q \in ParameterValues(name) :
       LET body == [parameters |-> q, count |-> count]
           h == HandleGenerate(availableDistributions, name, body, pat)
       IN /\ req' = Request("generate", name, body)
          /\ res' = h.res
          /\ trace' = h.trace
  /\ last' = "generate"
  /\ UNCHANGED <<mounted, paired, twoSample, basic, availableDistributions, generator, listener>>

Describe ==
  /\ mounted = "server"
  /\ \E data \in DataValues :
       LET body == [data |-> data]
           h == HandleDescribe(body)
       IN /\ req' = Request("describe", "", body)
          /\ res' = h.res
          /\ trace' = h.trace
  /\ last' = "describe"
  /\ UNCHANGED <<mounted, paired, twoSample, basic, availableDistributions, generator, listener>>

\* ------------------------------------------------------------------ the server

\* The module has been loaded and no request has been served.
InitServer ==
  /\ mounted = "server"
  /\ last = "init"
  /\ paired = PairedInit
  /\ twoSample = TwoSampleInit
  /\ basic = BasicInit(<<>>)
  /\ trace = <<>>
  /\ availableDistributions = Catalog
  /\ req = Null
  /\ res = Null
  /\ generator = Null
  /\ listener = Null

NextServer ==
  \/ ListDistributions
  \/ Calculate
  \/ Generate
  \/ Describe

SpecServer == InitServer /\ [][NextServer]_vars

\* ------------------------------------------------------------------ properties of the forms

\* The form on the page, its numeric confidence level, and what its last
\* calculation left.
Form == IF mounted = "PairedMeanCI" THEN paired ELSE twoSample

FormConfidence ==
  IF mounted = "PairedMeanCI" THEN parseFloat(paired.confidenceLevel)
  ELSE twoSample.confidenceLevel

FormSamples ==
  IF mounted = "PairedMeanCI"
    THEN <<PairedParseData(paired.beforeData).value, PairedParseData(paired.afterData).value>>
    ELSE <<TwoSampleParseData(twoSample.data1), TwoSampleParseData(twoSample.data2)>>

FormVariances ==
  IF mounted = "PairedMeanCI" THEN <<parseFloat(paired.populationVariance)>>
  ELSE <<parseFloat(twoSample.populationVariance1), parseFloat(twoSample.populationVariance2)>>

NoError == IF mounted = "PairedMeanCI" THEN "" ELSE NullError

\* The calculation that just ran took a known-variance path and produced an interval.
KnownVarianceInterval ==
  /\ mounted \in {"PairedMeanCI", "TwoSampleCIComponent"}
  /\ last = "calculate"
  /\ Form.knownVariance
  /\ Form.result # Null

TraceOps == {trace[i].op : i \in 1..Len(trace)}

TraceArgs(op) == {trace[i].arg : i \in {j \in 1..Len(trace) : trace[j].op = op}}

\* C1: in every known-variance path, with margin = criticalValue * standardError,
\* a two-sided interval is [estimate - margin, estimate + margin], a
\* one-sided-lower interval is [estimate - margin, +Infinity) with a finite lower
\* bound, and a one-sided-upper interval is (-Infinity, estimate + margin] with a
\* finite upper bound.
C1_IntervalConstruction ==
  KnownVarianceInterval =>
    LET r == Form.result
        t == Form.intervalType
    IN /\ \A se \in TraceArgs("standardError") : r.marginOfError = Mul(r.criticalValue, se)
       /\ t = "two-sided" =>
            r.lower = r.meanDiff - r.marginOfError /\ r.upper = r.meanDiff + r.marginOfError
       /\ t = "one-sided-lower" =>
            /\ r.lower = r.meanDiff - r.marginOfError
            /\ isFinite(r.lower)
            /\ r.upper = Infinity
       /\ t = "one-sided-upper" =>
            /\ r.lower = NegInfinity
            /\ r.upper = r.meanDiff + r.marginOfError
            /\ isFinite(r.upper)

\* C2: in all known-variance paths the critical value of a one-sided interval at
\* confidence level c is getZCriticalValue(2c - 1), the same for one-sided-lower
\* and one-sided-upper, and that of a two-sided interval is getZCriticalValue(c).
C2_OneSidedCriticalValue ==
  KnownVarianceInterval =>
    LET c == FormConfidence
        level == IF Form.intervalType = "two-sided" THEN c ELSE 2 * c - Scale
    IN /\ TraceArgs("getZCriticalValue") = {level}
       /\ Form.result.criticalValue = getZCriticalValue(level)
       /\ ~isNaN(Form.result.criticalValue)

C2_Witness ==
  /\ KnownVarianceInterval
  /\ Form.intervalType = "one-sided-upper"
  /\ FormConfidence = 950
  /\ Form.result.criticalValue = 1645

\* Both sample texts parsed (PairedMeanCI throws on a piece that is not a number).
SamplesParsed ==
  mounted = "PairedMeanCI" =>
    ~PairedParseData(paired.beforeData).threw /\ ~PairedParseData(paired.afterData).threw

\* The form asks for equal lengths: always in PairedMeanCI, for method paired in
\* TwoSampleCIComponent.
EqualLengthsRequired == mounted = "PairedMeanCI" \/ twoSample.method = "paired"

SamplesRejected ==
  \/ Len(FormSamples[1]) = 0
  \/ Len(FormSamples[2]) = 0
  \/ EqualLengthsRequired /\ Len(FormSamples[1]) # Len(FormSamples[2])

VariancesValid == \A i \in DOMAIN FormVariances : ~isNaN(FormVariances[i]) /\ FormVariances[i] > 0

Calculated == mounted \in {"PairedMeanCI", "TwoSampleCIComponent"} /\ last = "calculate"

\* The known-variance switch of the statistics tab is on, its variance is not a
\* number above 0, and the statistics were just calculated.
BasicInvalidVariance ==
  /\ mounted = "BasicStatisticsTab"
  /\ last = "calculate"
  /\ Len(basic.dataset) > 0
  /\ basic.ciOptions.knownVariance
  /\ (isNaN(basic.ciOptions.populationVariance) \/ basic.ciOptions.populationVariance <= 0)

\* The two forms reject a variance that is not a number above 0.
FormsRejectInvalidVariance ==
  Calculated /\ Form.knownVariance /\ ~VariancesValid =>
    /\ Form.result = Null
    /\ Form.error \notin {"", NullError}
    /\ trace = <<>>
    /\ SamplesParsed /\ ~SamplesRejected =>
         Form.error \in {"Population variance must be a positive number",
                         "Population variance for dataset 1 must be a positive number",
                         "Population variance for dataset 2 must be a positive number"}

C3_BasicWitness ==
  /\ BasicInvalidVariance
  /\ basic.ciOptions.populationVariance = 0
  /\ basic.stats # Null
  /\ isFinite(basic.stats.confidenceInterval.lower)

\* C4: if either sample is empty, or equal lengths are required (always in
\* PairedMeanCI, for method paired in TwoSampleCIComponent) and the lengths differ,
\* the calculation ends with an error message and a null result and computes no
\* difference, mean, standard error or critical value; samples of different lengths
\* are accepted by TwoSampleCIComponent for the other methods.
C4_InvalidSamplesRejected ==
  Calculated /\ SamplesParsed =>
    /\ SamplesRejected =>
         /\ Form.result = Null
         /\ Form.error \notin {"", NullError}
         /\ trace = <<>>
    /\ ~SamplesRejected /\ (Form.knownVariance => VariancesValid) =>
         /\ Form.result # Null
         /\ Form.error = NoError

C4_Witness ==
  /\ Calculated
  /\ mounted = "TwoSampleCIComponent"
  /\ twoSample.method = "paired"
  /\ Len(FormSamples[1]) = 1
  /\ Len(FormSamples[2]) = MaxLen
  /\ twoSample.result = Null
  /\ twoSample.error = "Paired samples must have the same length"

ExampleBefore == <<10 * Scale, 12 * Scale, 14 * Scale>>
ExampleAfter == <<8 * Scale, 11 * Scale, 12 * Scale>>

\* The paired known-variance calculation of the example just ran.
ExampleCalculated ==
  /\ Calculated
  /\ EqualLengthsRequired
  /\ FormSamples = <<ExampleBefore, ExampleAfter>>
  /\ FormConfidence = 950
  /\ Form.knownVariance
  /\ \A i \in DOMAIN FormVariances : FormVariances[i] = Scale

\* C5 as stated: for before = [10,12,14], after = [8,11,12], confidence 0.95 and
\* known population variance 1 each, the paired known-variance interval reports
\* the mean difference 2.333 and the two-sided interval is symmetric about it.
C5_Original ==
  ExampleCalculated =>
    /\ Form.result # Null
    /\ Form.result.meanDiff = 2333
    /\ Form.intervalType = "two-sided" =>
         Form.result.lower + Form.result.upper = 2 * Form.result.meanDiff

\* C5 (amended): for the same input the reported mean difference is
\* (2 + 1 + 2) / 3 = 1.667, and the two-sided interval is symmetric about it.
C5_PairedExample ==
  ExampleCalculated =>
    /\ Form.result # Null
    /\ Form.result.meanDiff = 1667
    /\ Form.intervalType = "two-sided" =>
         /\ Form.result.lower + Form.result.upper = 2 * Form.result.meanDiff
         /\ Form.result.lower < Form.result.meanDiff
         /\ Form.result.meanDiff < Form.result.upper

C5_Witness ==
  /\ ExampleCalculated
  /\ mounted = "TwoSampleCIComponent"
  /\ Form.intervalType = "two-sided"
  /\ Form.result # Null

\* C6: every two-sided result of a known-variance path has
\* lower <= meanDiff <= upper, that is marginOfError >= 0, for every confidence
\* level the form offers and every positive known variance.
C6_TwoSidedOrdered ==
  KnownVarianceInterval /\ Form.intervalType = "two-sided" =>
    LET r == Form.result
    IN /\ isFinite(r.lower) /\ isFinite(r.upper) /\ isFinite(r.marginOfError)
       /\ r.lower <= r.meanDiff
       /\ r.meanDiff <= r.upper
       /\ r.marginOfError >= 0

C6_Witness ==
  /\ KnownVarianceInterval
  /\ mounted = "TwoSampleCIComponent"
  /\ twoSample.method = "pooled"
  /\ Form.intervalType = "two-sided"
  /\ FormConfidence = 990
  /\ Form.result.lower < Form.result.meanDiff

\* C7: with the known-variance option on and valid variances, every path
\* (PairedMeanCI; TwoSampleCIComponent with method paired, pooled or welch) takes
\* its critical value from getZCriticalValue and never calls the t-based
\* calculateTwoSampleConfidenceInterval, for every sample size n >= 1.
C7_KnownVarianceUsesZ ==
  Calculated /\ SamplesParsed /\ ~SamplesRejected /\ Form.knownVariance /\ VariancesValid =>
    /\ Form.result # Null
    /\ "calculateTwoSampleConfidenceInterval" \notin TraceOps
    /\ \E level \in TraceArgs("getZCriticalValue") :
         /\ TraceArgs("getZCriticalValue") = {level}
         /\ Form.result.criticalValue = getZCriticalValue(level)

C7_Witness ==
  /\ Calculated /\ ~SamplesRejected /\ Form.knownVariance /\ VariancesValid
  /\ mounted = "PairedMeanCI"
  /\ Len(FormSamples[1]) = 1
  /\ "getZCriticalValue" \in TraceOps

\* The form shows an error message; it shows a result.
ErrorSet == Form.error \notin {"", NullError}

ResultSet == Form.result # Null

\* C26: after every call of handleCalculate of PairedMeanCI and of calculate of
\* TwoSampleCIComponent exactly one of error and result is set: a failed call
\* leaves no result and a message that is not empty, a successful one a result and
\* the cleared error; at no time is a result displayed together with an error.
C26_ErrorOrResult ==
  mounted \in {"PairedMeanCI", "TwoSampleCIComponent"} =>
    /\ ~(ErrorSet /\ ResultSet)
    /\ last = "calculate" =>
         /\ ErrorSet # ResultSet
         /\ ~ResultSet => Form.error # NoError
         /\ ResultSet => Form.error = NoError
    /\ last = "init" => ~ErrorSet /\ ~ResultSet

\* C26 witness: a calculation of PairedMeanCI has failed on a variance that is
\* not positive, with samples that parse.
C26_Witness ==
  /\ mounted = "PairedMeanCI"
  /\ last = "calculate"
  /\ SamplesParsed
  /\ paired.knownVariance
  /\ paired.result = Null
  /\ paired.error = "Population variance must be a positive number"

\* A calculation of TwoSampleCIComponent has succeeded.
C26_ResultWitness ==
  /\ mounted = "TwoSampleCIComponent"
  /\ last = "calculate"
  /\ twoSample.result # Null
  /\ twoSample.error = NullError

\* The two-sample form in the state of the paired form: the same texts, level
\* and interval type, the paired method and the variances v1 and v2.
TwoSampleFormOfPaired(v1, v2) ==
  [TwoSampleInit EXCEPT !.data1 = paired.beforeData, !.data2 = paired.afterData,
                        !.confidenceLevel = parseFloat(paired.confidenceLevel),
                        !.method = "paired", !.intervalType = paired.intervalType,
                        !.knownVariance = TRUE,
                        !.populationVariance1 = v1, !.populationVariance2 = v2]

\* Two numbers are the same up to the rounding of the last digit.
SameNumber(a, b) ==
  IF isFinite(a) /\ isFinite(b) THEN a - b \in {-1, 0, 1} ELSE a = b

SameInterval(r, q) ==
  /\ SameNumber(r.meanDiff, q.meanDiff)
  /\ SameNumber(r.criticalValue, q.criticalValue)
  /\ SameNumber(r.marginOfError, q.marginOfError)
  /\ SameNumber(r.lower, q.lower)
  /\ SameNumber(r.upper, q.upper)

\* C27: for the same before and after samples, confidence level and interval
\* type, PairedMeanCI with known variance v and the paired branch of
\* TwoSampleCIComponent with known variances v1 and v2, v1 + v2 = v, produce the
\* same meanDiff, criticalValue, marginOfError, lower and upper.
C27_PairedFormsAgree ==
  (mounted = "PairedMeanCI" /\ last = "calculate" /\ paired.knownVariance
     /\ paired.result # Null /\ parseFloat(paired.confidenceLevel) \in ConfidenceOptions) =>
    \A v1, v2 \in TwoSampleVarianceTexts :
      (/\ ~TwoSampleVarianceInvalid(parseFloat(v1))
       /\ ~TwoSampleVarianceInvalid(parseFloat(v2))
       /\ parseFloat(v1) + parseFloat(v2) = parseFloat(paired.populationVariance)) =>
        LET other == TwoSampleCalculateOutcome(TwoSampleFormOfPaired(v1, v2))
        IN other.result # Null /\ SameInterval(paired.result, other.result)

\* ------------------------------------------------------------------ properties of the server

MathRoutines ==
  {"normalPDF", "normalCDF", "uniformPDF", "uniformCDF", "binomialPMF", "binomialCDF",
   "poissonPMF", "poissonCDF", "exponentialPDF", "exponentialCDF", "gammaPDF",
   "generateNormal", "generateUniform", "generateBinomial", "generatePoisson",
   "generateExponential"}

MathInvoked == TraceOps \cap MathRoutines # {}

CatalogNames == {"normal", "uniform", "binomial", "poisson", "exponential", "gamma"}

\* The constraints of a distribution on a parameters value.
ConstraintsHold(name, parameters) ==
  /\ parameters.kind = "object"
  /\ LET q == parameters.fields
         has(names) == names \subseteq DOMAIN q
     IN CASE name = "normal" -> has({"mu", "sigma"}) /\ q.sigma > 0
          [] name = "uniform" -> has({"a", "b"}) /\ q.b > q.a
          [] name = "binomial" ->
               has({"n", "p"}) /\ q.n % Scale = 0 /\ q.n > 0 /\ q.p >= 0 /\ q.p <= Scale
          [] name \in {"poisson", "exponential"} -> has({"lambda"}) /\ q.lambda > 0
          [] name = "gamma" -> has({"shape", "rate"}) /\ q.shape > 0 /\ q.rate > 0
          [] OTHER -> FALSE

\* The request passed the presence check of its endpoint.
PresenceChecked ==
  /\ last \in {"calculate", "generate"}
  /\ ~Falsy(req.body.parameters)
  /\ IF last = "calculate" THEN req.body.x.kind # "undefined"
                           ELSE ~(req.body.count.kind = "number" /\ req.body.count.value <= 0)

\* C8: in the calculate and generate endpoints a density, mass, cumulative or
\* sampler function is invoked only when the requested name is in the catalog and
\* the parameters satisfy that distribution's constraints; parameters on which the
\* presence test of validateParameters throws are answered as invalid parameters
\* (400), the throw being turned into false.
C8_MathOnlyAfterValidation ==
  last \in {"calculate", "generate"} =>
    /\ MathInvoked =>
         req.name \in CatalogNames /\ ConstraintsHold(req.name, req.body.parameters)
    /\ (PresenceChecked /\ req.name \in CatalogNames /\ req.body.parameters.kind # "object") =>
         res = Response(400, ErrorBody("Invalid parameters")) /\ trace = <<>>

\* C8 witness: a calculation of the binomial mass function has been served.
C8_Witness ==
  /\ last = "calculate"
  /\ req.name = "binomial"
  /\ ConstraintsHold(req.name, req.body.parameters)
  /\ "binomialPMF" \in TraceOps
  /\ res.status = 200

\* A number sent as parameters has been refused by validation.
C8_ThrowWitness ==
  /\ PresenceChecked
  /\ req.name \in CatalogNames
  /\ req.body.parameters.kind = "number"
  /\ res = Response(400, ErrorBody("Invalid parameters"))

AcceptedTypes(name) ==
  CASE name \in {"normal", "uniform", "exponential"} -> {"pdf", "cdf"}
    [] name \in {"binomial", "poisson"} -> {"pmf", "cdf"}
    [] name = "gamma" -> {"pdf"}
    [] OTHER -> {}

GeneratedNames == {"normal", "uniform", "binomial", "poisson", "exponential"}

\* The type asked for; a body without type asks for the density.
RequestedType == IF req.body.type = "" THEN "pdf" ELSE req.body.type

\* The request got as far as the switch of its endpoint.
ReachesSwitch ==
  PresenceChecked /\ req.name \in CatalogNames /\ ConstraintsHold(req.name, req.body.parameters)

\* C9: a valid calculate request is answered with a result exactly when its type
\* is pdf or cdf for normal, uniform and exponential, pmf or cdf for binomial and
\* poisson, pdf for gamma; a valid generate request is answered with data exactly
\* for normal, uniform, binomial, poisson and exponential; every other one gets
\* status 400 and no math or sampler routine is invoked.
C9_AcceptedTypes ==
  /\ (last = "calculate" /\ ReachesSwitch) =>
       IF RequestedType \in AcceptedTypes(req.name)
         THEN res.status = 200 /\ MathInvoked
         ELSE res.status = 400 /\ trace = <<>>
  /\ (last = "generate" /\ ReachesSwitch) =>
       IF req.name \in GeneratedNames
         THEN res.status = 200 /\ MathInvoked
         ELSE res.status = 400 /\ trace = <<>>

\* C9 witness: the cumulative function of gamma has been asked for with valid
\* parameters and refused.
C9_Witness ==
  /\ last = "calculate"
  /\ ReachesSwitch
  /\ req.name = "gamma"
  /\ req.body.type = "cdf"
  /\ res.status = 400
  /\ trace = <<>>

\* Generation for gamma with valid parameters has been refused.
C9_GenerateWitness ==
  /\ last = "generate"
  /\ ReachesSwitch
  /\ req.name = "gamma"
  /\ res = Response(400, ErrorBody("Generation not implemented for this distribution"))

\* C10: after any sequence of requests the catalog is the six descriptors normal,
\* uniform, binomial, poisson, exponential, gamma in that order, and the response
\* to a calculate or describe request is the one that request gets from a server
\* that has served nothing before.
C10_CatalogReadOnly ==
  /\ [i \in 1..Len(availableDistributions) |-> availableDistributions[i].name]
       = <<"normal", "uniform", "binomial", "poisson", "exponential", "gamma">>
  /\ availableDistributions = Catalog
  /\ last = "calculate" => res = HandleCalculate(Catalog, req.name, req.body).res
  /\ last = "describe" => res = HandleDescribe(req.body).res

\* C10 witness: a calculation has been answered with a result.
C10_Witness ==
  /\ last = "calculate"
  /\ req.name = "normal"
  /\ res.status = 200
  /\ res.body.type = "cdf"
  /\ availableDistributions = Catalog

\* The arguments factorial was called with while the last request was served.
FactorialArguments == SelectSeq(trace, LAMBDA st : st.op = "factorial")

PoissonServed(type) ==
  /\ last = "calculate"
  /\ req.name = "poisson"
  /\ RequestedType = type
  /\ res.status = 200

\* C21: on every path from the calculate endpoint factorial is called with an
\* argument that is not negative: the Poisson mass function at a negative k
\* answers without calling it, and the cumulative function calls it with 0, 1, ...
\* up to k only; no other function of the endpoint calls it.
C21_FactorialNeverNegative ==
  last = "calculate" =>
    /\ \A i \in 1..Len(FactorialArguments) : FactorialArguments[i].arg >= 0
    /\ FactorialArguments # <<>> => req.name = "poisson" /\ res.status = 200
    /\ PoissonServed("pmf") =>
         FactorialArguments = IF req.body.x.value < 0 THEN <<>>
                              ELSE <<Step("factorial", req.body.x.value)>>
    /\ PoissonServed("cdf") =>
         /\ Len(FactorialArguments) = IF req.body.x.value < 0 THEN 0
                                      ELSE req.body.x.value \div Scale + 1
         /\ \A i \in 1..Len(FactorialArguments) :
              FactorialArguments[i].arg = (i - 1) * Scale

\* C21 witness: the Poisson mass function has been asked for at a negative k and
\* answered.
C21_Witness ==
  /\ PoissonServed("pmf")
  /\ req.body.x.value < 0
  /\ FactorialArguments = <<>>

\* The Poisson cumulative function has been answered at 2 after three calls of
\* factorial.
C21_CumulativeWitness ==
  /\ PoissonServed("cdf")
  /\ req.body.x.value = 2 * Scale
  /\ Len(FactorialArguments) = 3

\* The status and error message a request is answered with when it fails, or
\* 200 and no message, by the checks of the endpoints taken in order.
Answer(status, message) == [status |-> status, message |-> message]

ExpectedCalculateAnswer ==
  IF Falsy(req.body.parameters) \/ req.body.x = Absent
    THEN Answer(400, "Missing parameters or x value")
  ELSE IF req.name \notin CatalogNames THEN Answer(404, "Distribution not found")
  ELSE IF ~ConstraintsHold(req.name, req.body.parameters)
    THEN Answer(400, "Invalid parameters")
  ELSE IF RequestedType \notin AcceptedTypes(req.name)
    THEN Answer(400, IF req.name = "gamma"
                       THEN "Only PDF calculation available for gamma distribution"
                       ELSE "Invalid calculation type")
  ELSE Answer(200, "")

ExpectedGenerateAnswer ==
  IF Falsy(req.body.parameters)
       \/ (req.body.count.kind = "number" /\ req.body.count.value <= 0)
    THEN Answer(400, "Missing parameters or invalid count")
  ELSE IF req.name \notin CatalogNames THEN Answer(404, "Distribution not found")
  ELSE IF ~ConstraintsHold(req.name, req.body.parameters)
    THEN Answer(400, "Invalid parameters")
  ELSE IF req.name \notin GeneratedNames
    THEN Answer(400, "Generation not implemented for this distribution")
  ELSE Answer(200, "")

Answered(answer) ==
  /\ res.status = answer.status
  /\ IF answer.status = 200 THEN "error" \notin DOMAIN res.body
                            ELSE res.body = ErrorBody(answer.message)

\* C22: the calculate endpoint answers by the first failing check of: parameters
\* missing or x undefined (400), name not in the catalog (404), parameters invalid
\* (400), type not supported (400), and with 200 and a result when none fails; the
\* generate endpoint by the first failing of: parameters missing or count <= 0
\* (400), name not in the catalog (404), parameters invalid (400), no sampler
\* (400).  An unknown name with missing parameters gets 400, not 404.
C22_ChecksInOrder ==
  /\ last = "calculate" =>
       /\ Answered(ExpectedCalculateAnswer)
       /\ res.status = 200 => "result" \in DOMAIN res.body
       /\ (req.name \notin CatalogNames /\ Falsy(req.body.parameters)) => res.status = 400
  /\ last = "generate" =>
       /\ Answered(ExpectedGenerateAnswer)
       /\ res.status = 200 => "data" \in DOMAIN res.body
       /\ (req.name \notin CatalogNames /\ Falsy(req.body.parameters)) => res.status = 400

\* C22 witness: a calculate request for a name that is not in the catalog, without
\* parameters, has been answered with 400.
C22_Witness ==
  /\ last = "calculate"
  /\ req.name \notin CatalogNames
  /\ req.body.parameters = Absent
  /\ req.body.x # Absent
  /\ res = Response(400, ErrorBody("Missing parameters or x value"))

\* A generate request for a name that is not in the catalog, with parameters and
\* a count above 0, has been answered with 404.
C22_NotFoundWitness ==
  /\ last = "generate"
  /\ req.name \notin CatalogNames
  /\ ~Falsy(req.body.parameters)
  /\ res = Response(404, ErrorBody("Distribution not found"))

\* C23: a calculate request without type is evaluated as type pdf: with valid
\* parameters it gets the density as result for normal, uniform, exponential and
\* gamma, and 400 'Invalid calculation type' for binomial and poisson, so a body
\* of parameters and x alone never yields a result for a discrete distribution.
C23_DefaultTypeIsPdf ==
  (last = "calculate" /\ req.body.type = "" /\ ReachesSwitch) =>
    IF req.name \in {"binomial", "poisson"}
      THEN res = Response(400, ErrorBody("Invalid calculation type"))
      ELSE /\ res.status = 200
           /\ res.body.type = "pdf"
           /\ res.body.result.fn
                = CASE req.name = "normal" -> "normalPDF"
                    [] req.name = "uniform" -> "uniformPDF"
                    [] req.name = "exponential" -> "exponentialPDF"
                    [] req.name = "gamma" -> "gammaPDF"

\* C23 witness: a Poisson calculation without type, with valid parameters, has
\* been refused.
C23_Witness ==
  /\ last = "calculate"
  /\ req.body.type = ""
  /\ ReachesSwitch
  /\ req.name = "poisson"
  /\ res = Response(400, ErrorBody("Invalid calculation type"))

\* A normal calculation without type has been answered with the density.
C23_DensityWitness ==
  /\ last = "calculate"
  /\ req.body.type = ""
  /\ req.name = "normal"
  /\ res.status = 200
  /\ res.body.type = "pdf"

\* The lengths of the arrays calculateStats was called with while the last
\* request was served.
StatsCallLengths ==
  LET calls == SelectSeq(trace, LAMBDA st : st.op = "calculateStats")
  IN {calls[i].arg \div Scale : i \in 1..Len(calls)}

\* C24: calculateStats is never called with an empty array: the describe endpoint
\* answers 400 to data that is missing, not an array or empty, and the generate
\* endpoint calls it on generated data only, which holds at least one variate for
\* every count that passed the count <= 0 check.
C24_StatsNeverOnEmpty ==
  /\ 0 \notin StatsCallLengths
  /\ (last = "describe" /\ (req.body.data.kind # "array" \/ req.body.data.items = <<>>)) =>
       res = Response(400, ErrorBody("Invalid or empty dataset")) /\ trace = <<>>
  /\ (last = "generate" /\ res.status = 200) => Len(res.body.data) >= 1

\* The statistics st of the sample data are in order.
StatsOrdered(data, st) ==
  /\ st.min <= st.q1
  /\ st.q1 <= st.median
  /\ st.median <= st.q3
  /\ st.q3 <= st.max
  /\ st.min <= st.mean
  /\ st.mean <= st.max
  /\ st.variance >= 0
  /\ st.count = Len(data)

\* C25: for every non-empty numeric sample the result of calculateStats has
\* min <= q1 <= median <= q3 <= max, min <= mean <= max, variance >= 0 and
\* count equal to the length of the sample.
C25_StatsOrdered ==
  /\ (last = "describe" /\ res.status = 200) =>
       StatsOrdered(req.body.data.items, res.body.statistics)
  /\ (last = "generate" /\ res.status = 200 /\ res.body.data # <<>>) =>
       StatsOrdered(res.body.data, res.body.stats)

\* ------------------------------------------------------------------ server.js: calculateStats on a caller's array

\* A function applied to arguments: the request is the call, the response what
\* it returns.
Apply(fn, args) == [fn |-> fn, args |-> args]

\* Mutant: the array itself is sorted.
CallerArraySortedInPlace(data) == SortAscending(data)

\* The caller's array after calculateStats(data): reduce reads it and sort works
\* on the copy [...data].
CallerArrayAfterCalculateStats(data) == data


\* The values of the samples handed to calculateStats.
SampleValues == {Scale, 2 * Scale, 3 * Scale}

RECURSIVE SamplesOfLength(_)
SamplesOfLength(n) ==
  IF n = 0 THEN {<<>>}
  ELSE {<<x>> \o s : x \in SampleValues, s \in SamplesOfLength(n - 1)}

\* Every sample of 1 to MaxLen values, the sample 1..5 and the sample 3, 1, 2, 1.
StatsSamples ==
  UNION {SamplesOfLength(n) : n \in 1..MaxLen}
    \cup {[i \in 1..5 |-> i * Scale], <<3 * Scale, Scale, 2 * Scale, Scale>>}

StatsCalls == {Apply("calculateStats", [data |-> d]) : d \in StatsSamples}

\* calculateStats(data) is called, and then called again on the same array.
ApplyCalculateStats ==
  /\ mounted = "functions"
  /\ last = "init"
  /\ req.fn = "calculateStats"
  /\ LET after == CallerArrayAfterCalculateStats(req.args.data)
     IN res' = [first |-> calculateStats(req.args.data), data |-> after,
                second |-> calculateStats(after)]
  /\ trace' = <<Step("calculateStats", Len(req.args.data) * Scale)>>
  /\ last' = "applied"
  /\ UNCHANGED <<mounted, paired, twoSample, basic, availableDistributions, req, generator, listener>>

\* ------------------------------------------------------------------ exact numbers

\* The values of comb, of the binomial and of the uniform functions are kept as
\* fractions in lowest terms (floating-point rounding is left out).
RECURSIVE GCD(_, _)
GCD(a, b) == IF b = 0 THEN a ELSE GCD(b, a % b)

Abs(a) == IF a < 0 THEN -a ELSE a

\* num / den in lowest terms, den > 0.
Frac(num, den) ==
  LET g == GCD(Abs(num), Abs(den))
      sgn == IF den < 0 THEN -1 ELSE 1
  IN [num |-> sgn * (num \div g), den |-> sgn * (den \div g)]

FracOf(n) == [num |-> n, den |-> 1]

FracAdd(x, y) == Frac(x.num * y.den + y.num * x.den, x.den * y.den)
FracSub(x, y) == Frac(x.num * y.den - y.num * x.den, x.den * y.den)
FracMul(x, y) == Frac(x.num * y.num, x.den * y.den)
FracDiv(x, y) == Frac(x.num * y.den, x.den * y.num)
FracLess(x, y) == x.num * y.den < y.num * x.den
FracLeq(x, y) == x.num * y.den <= y.num * x.den

\* Math.pow(x, k) for an integer k >= 0; Math.pow(0, 0) is 1.
RECURSIVE FracPow(_, _)
FracPow(x, k) == IF k <= 0 THEN FracOf(1) ELSE FracMul(x, FracPow(x, k - 1))

\* ------------------------------------------------------------------ server.js: factorial and comb

\* for (let i = 2; i <= n; i++) result *= i
RECURSIVE FactorialLoop(_, _, _)
FactorialLoop(i, n, result) ==
  IF i <= n THEN FactorialLoop(i + 1, n, result * i) ELSE result

\* Mutant: the loop starts at 3.
factorialFromThree(n) ==
  IF n < 0 THEN 0 ELSE IF n = 0 \/ n = 1 THEN 1 ELSE FactorialLoop(3, n, 1)

\* factorial(n) for an integer n
factorial(n) ==
  IF n < 0 THEN 0 ELSE IF n = 0 \/ n = 1 THEN 1 ELSE FactorialLoop(2, n, 1)

\* Mutant: the division is made before the multiplication.
CombStepDivideFirst(c, n, i) == FracMul(FracOf((c.num \div c.den) \div (i + 1)), FracOf(n - i))

\* c = c * (n - i) / (i + 1)
CombStep(c, n, i) == FracDiv(FracMul(c, FracOf(n - i)), FracOf(i + 1))

\* for (let i = 0; i < k; i++) c = c * (n - i) / (i + 1): the values c takes.
RECURSIVE CombLoop(_, _, _, _)
CombLoop(i, k, n, c) ==
  IF i < k THEN LET next == CombStep(c, n, i) IN <<next>> \o CombLoop(i + 1, k, n, next)
  ELSE <<>>

\* Math.min(k, n - k)
Min(a, b) == IF a <= b THEN a ELSE b

\* The values c takes in the loop of comb(n, k), for 0 < k < n.
CombIntermediates(n, k) == CombLoop(0, Min(k, n - k), n, FracOf(1))

\* comb(n, k) for integers n and k
comb(n, k) ==
  IF k < 0 \/ k > n THEN FracOf(0)
  ELSE IF k = 0 \/ k = n THEN FracOf(1)
  ELSE LET cs == CombIntermediates(n, k) IN cs[Len(cs)]

\* The largest n of comb(n, k) and factorial(n) tried throughout.
MaxChoose == 6

\* n from 0 to MaxChoose and n = 10, k from below 0 to above n.
CombCalls ==
  {Apply("comb", [n |-> n, k |-> k]) :
     n \in 0..MaxChoose, k \in -2..(MaxChoose + 2)}
    \cup {Apply("comb", [n |-> 10, k |-> k]) : k \in -1..11}

FactorialCalls == {Apply("factorial", [n |-> n]) : n \in -3..(MaxChoose + 2)}

ApplyComb ==
  /\ mounted = "functions"
  /\ last = "init"
  /\ req.fn = "comb"
  /\ LET n == req.args.n
         k == req.args.k
         cs == IF 0 < k /\ k < n THEN CombIntermediates(n, k) ELSE <<>>
     IN /\ res' = [value |-> comb(n, k), mirrored |-> comb(n, n - k)]
        /\ trace' = [j \in 1..Len(cs) |-> Step("c", cs[j])]
  /\ last' = "applied"
  /\ UNCHANGED <<mounted, paired, twoSample, basic, availableDistributions, req, generator, listener>>

ApplyFactorial ==
  /\ mounted = "functions"
  /\ last = "init"
  /\ req.fn = "factorial"
  /\ res' = [value |-> factorial(req.args.n), previous |-> factorial(req.args.n - 1)]
  /\ trace' = <<>>
  /\ last' = "applied"
  /\ UNCHANGED <<mounted, paired, twoSample, basic, availableDistributions, req, generator, listener>>

\* ------------------------------------------------------------------ server.js: binomial and uniform functions

\* Mutant: the mass is that of k successes whatever k is.
binomialPMFUnbounded(k, n, p) ==
  FracMul(FracMul(comb(n, Abs(k) % (n + 1)), FracPow(p, k)), FracPow(FracSub(FracOf(1), p), n - k))

\* binomialPMF(k, n, p) for integers k and n
binomialPMF(k, n, p) ==
  IF k < 0 \/ k > n THEN FracOf(0)
  ELSE FracMul(FracMul(comb(n, k), FracPow(p, k)), FracPow(FracSub(FracOf(1), p), n - k))

\* for (let i = 0; i <= k; i++) sum += binomialPMF(i, n, p)
RECURSIVE BinomialSum(_, _, _, _, _)
BinomialSum(i, k, n, p, sum) ==
  IF i <= k THEN BinomialSum(i + 1, k, n, p, FracAdd(sum, binomialPMF(i, n, p))) ELSE sum

\* binomialCDF(k, n, p)
binomialCDF(k, n, p) == BinomialSum(0, k, n, p, FracOf(0))

\* Mutant: the upper end point is outside the support.
uniformPDFHalfOpen(x, a, b) ==
  IF FracLess(x, a) \/ FracLeq(b, x) THEN FracOf(0) ELSE FracDiv(FracOf(1), FracSub(b, a))

\* uniformPDF(x, a, b)
uniformPDF(x, a, b) ==
  IF FracLess(x, a) \/ FracLess(b, x) THEN FracOf(0) ELSE FracDiv(FracOf(1), FracSub(b, a))

\* uniformCDF(x, a, b)
uniformCDF(x, a, b) ==
  IF FracLess(x, a) THEN FracOf(0)
  ELSE IF FracLess(b, x) THEN FracOf(1)
  ELSE FracDiv(FracSub(x, a), FracSub(b, a))

\* The probabilities 0, 1/4, 1/2, 3/4 and 1.
Probabilities == {Frac(j, 4) : j \in 0..4}

\* n from 1 to MaxChoose with every probability, and n = 10 with p = 1/2; k from
\* below 0 to above n.
BinomialCalls ==
  {Apply("binomial", [k |-> k, n |-> n, p |-> p]) :
     k \in -2..(MaxChoose + 2), n \in 1..MaxChoose, p \in Probabilities}
    \cup {Apply("binomial", [k |-> k, n |-> 10, p |-> Frac(1, 2)]) : k \in -1..12}

\* The end points and the arguments of the uniform functions: halves from -1 to 3.
UniformPoints == {Frac(j, 2) : j \in -2..6}

UniformCalls ==
  {Apply("uniform", [x |-> t[1], a |-> t[2], b |-> t[3]]) :
     t \in {u \in UniformPoints \X UniformPoints \X UniformPoints : FracLess(u[2], u[3])}}

ApplyBinomial ==
  /\ mounted = "functions"
  /\ last = "init"
  /\ req.fn = "binomial"
  /\ res' = [pmf |-> binomialPMF(req.args.k, req.args.n, req.args.p),
             cdf |-> binomialCDF(req.args.k, req.args.n, req.args.p)]
  /\ trace' = <<>>
  /\ last' = "applied"
  /\ UNCHANGED <<mounted, paired, twoSample, basic, availableDistributions, req, generator, listener>>

ApplyUniform ==
  /\ mounted = "functions"
  /\ last = "init"
  /\ req.fn = "uniform"
  /\ res' = [pdf |-> uniformPDF(req.args.x, req.args.a, req.args.b),
             cdf |-> uniformCDF(req.args.x, req.args.a, req.args.b)]
  /\ trace' = <<>>
  /\ last' = "applied"
  /\ UNCHANGED <<mounted, paired, twoSample, basic, availableDistributions, req, generator, listener>>

\* ------------------------------------------------------------------ server.js: poisson, exponential and normal functions

\* Poisson and exponential values are kept in millionths.
Micro == Scale * Scale

\* Math.exp(-y) in millionths, for y in thousandths.
ExpNeg(y) == CASE y = 0 -> Micro
               [] y = 500 -> 606531
               [] y = 1000 -> 367879
               [] y = 1500 -> 223130
               [] y = 2000 -> 135335
               [] y = 3000 -> 49787
               [] y = 4000 -> 18316
               [] y = 6000 -> 2479
               [] OTHER -> NaN

\* Math.pow(lambda, k) for whole numbers lambda and k >= 0.
RECURSIVE IntPow(_, _)
IntPow(b, k) == IF k <= 0 THEN 1 ELSE b * IntPow(b, k - 1)

\* Mutant: the mass at k is divided by factorial(k - 1).
poissonPMFShifted(k, lambda) ==
  IF k < 0 THEN 0
  ELSE Round(IntPow(lambda, k) * ExpNeg(lambda * Scale), factorial(Abs(k - 1)))

\* poissonPMF(k, lambda) for whole numbers k and lambda, in millionths
poissonPMF(k, lambda) ==
  IF k < 0 THEN 0
  ELSE Round(IntPow(lambda, k) * ExpNeg(lambda * Scale), factorial(k))

\* for (let i = 0; i <= k; i++) sum += poissonPMF(i, lambda)
RECURSIVE PoissonSum(_, _, _, _)
PoissonSum(i, k, lambda, sum) ==
  IF i <= k THEN PoissonSum(i + 1, k, lambda, sum + poissonPMF(i, lambda)) ELSE sum

\* poissonCDF(k, lambda), in millionths
poissonCDF(k, lambda) == PoissonSum(0, k, lambda, 0)

\* exponentialCDF(x, lambda) for x in thousandths and a whole number lambda, in
\* millionths
exponentialCDF(x, lambda) == IF x < 0 THEN 0 ELSE Micro - ExpNeg(lambda * x)

\* The coefficients of erf, in units of 10^-9.
a1 == 254829592
a2 == -284496736
a3 == 1421413741
a4 == -1453152027
a5 == 1061405429

\* erf and the normal cumulative function are kept in units of 10^-9, t and
\* Math.exp(-x * x) in units of 10^-4.
Nano == Scale * Scale * Scale
Fine == 10 * Scale

\* t = 1.0 / (1.0 + p * x) for x = z / Math.sqrt(2), z >= 0 in thousandths.
ErfT(z) == CASE z = 0 -> Fine
             [] z = 500 -> 8962
             [] z = 1000 -> 8119
             [] z = 1500 -> 7421
             [] z = 2000 -> 6834
             [] z = 2500 -> 6333
             [] z = 3000 -> 5900
             [] OTHER -> NaN

\* Math.exp(-x * x) for x = z / Math.sqrt(2), z >= 0 in thousandths.
ErfExp(z) == CASE z = 0 -> Fine
               [] z = 500 -> 8825
               [] z = 1000 -> 6065
               [] z = 1500 -> 3247
               [] z = 2000 -> 1353
               [] z = 2500 -> 439
               [] z = 3000 -> 111
               [] OTHER -> NaN

\* a * t for a in units of 10^-9 and t in units of 10^-4.
MulFine(a, t) == (a \div Fine) * t + ((a % Fine) * t) \div Fine

\* Mutant: the sign of x is taken with x > 0.
erfSignStrict(z) ==
  LET sign == IF z > 0 THEN 1 ELSE -1
      t == ErfT(Abs(z))
      poly == MulFine(MulFine(MulFine(MulFine(MulFine(a5, t) + a4, t) + a3, t) + a2, t) + a1, t)
  IN sign * (Nano - MulFine(poly, ErfExp(Abs(z))))

\* erf(x) for x = z / Math.sqrt(2), the argument normalCDF passes; z in
\* thousandths, the value in units of 10^-9.
erf(z) ==
  LET sign == IF z >= 0 THEN 1 ELSE -1
      t == ErfT(Abs(z))
      poly == MulFine(MulFine(MulFine(MulFine(MulFine(a5, t) + a4, t) + a3, t) + a2, t) + a1, t)
  IN sign * (Nano - MulFine(poly, ErfExp(Abs(z))))

\* normalCDF(x, mu, sigma) = 0.5 * (1 + erf(z / Math.sqrt(2))), in units of
\* half of 10^-9 (1 is 2 * Nano).
normalCDF(x, mu, sigma) == Nano + erf(Div(x - mu, sigma))

\* ------------------------------------------------------------------ server.js: the logarithms of the samplers

\* The arguments Math.log is given by generateNormal(mu, sigma, count).
RECURSIVE generateNormalLogArguments(_, _, _)
generateNormalLogArguments(count, pat, k) ==
  IF ~Less(0, count) THEN <<>>
  ELSE LET k1 == NonZeroDraw(pat, k)
           k2 == NonZeroDraw(pat, k1 + 1)
       IN <<Draw(pat, k1)>> \o generateNormalLogArguments(count - Scale, pat, k2 + 1)

\* The arguments Math.log is given by generateExponential(lambda, count).
RECURSIVE generateExponentialLogArguments(_, _, _)
generateExponentialLogArguments(count, pat, k) ==
  IF ~Less(0, count) THEN <<>>
  ELSE <<Scale - Draw(pat, k)>> \o generateExponentialLogArguments(count - Scale, pat, k + 1)

\* The samplers that take a logarithm, each with two parameter sets.
SamplerCalls ==
  {Apply("sampler", [name |-> "normal", parameters |-> q, count |-> c * Scale, pat |-> pat]) :
     q \in {[mu |-> 0, sigma |-> Scale], [mu |-> Scale, sigma |-> 2 * Scale]},
     c \in 1..MaxCount, pat \in DrawPatterns}
    \cup
  {Apply("sampler", [name |-> "exponential", parameters |-> q, count |-> c * Scale, pat |-> pat]) :
     q \in {[lambda |-> Scale], [lambda |-> 2 * Scale]},
     c \in 1..MaxCount, pat \in DrawPatterns}

\* generateNormal or generateExponential is called.
ApplySampler ==
  /\ mounted = "functions"
  /\ last = "init"
  /\ req.fn = "sampler"
  /\ LET q == req.args.parameters
         count == req.args.count
         pat == req.args.pat
         logs == IF req.args.name = "normal"
                   THEN generateNormalLogArguments(count, pat, 1)
                   ELSE generateExponentialLogArguments(count, pat, 1)
     IN /\ res' = [data |-> IF req.args.name = "normal"
                              THEN generateNormal(q.mu, q.sigma, count, pat, 1)
                              ELSE generateExponential(q.lambda, count, pat, 1)]
        /\ trace' = [j \in 1..Len(logs) |-> Step("Math.log", logs[j])]
  /\ last' = "applied"
  /\ UNCHANGED <<mounted, paired, twoSample, basic, availableDistributions, req, generator, listener>>

\* ------------------------------------------------------------------ AIDataGenerator

\* description.toLowerCase(), word by word.
ToLowerCase(description) ==
  [j \in 1..Len(description) |->
     CASE description[j] = "Normal" -> "normal"
       [] description[j] = "Uniform" -> "uniform"
       [] description[j] = "Generate" -> "generate"
       [] OTHER -> description[j]]

\* lowerCaseDescription.includes(keyword), for a description of whole words.
Includes(description, keyword) == \E j \in 1..Len(description) : description[j] = keyword

\* The branch generateMockDataBasedOnDescription takes.
MockBranch(description) ==
  LET lowerCaseDescription == ToLowerCase(description)
  IN IF Includes(lowerCaseDescription, "normal") THEN "normal"
     ELSE IF Includes(lowerCaseDescription, "uniform") THEN "uniform"
     ELSE IF Includes(lowerCaseDescription, "exponential") THEN "exponential"
     ELSE IF Includes(lowerCaseDescription, "binomial") THEN "binomial"
     ELSE "normal"

\* Math.sqrt(-2 * Math.log(u1)) * Math.cos(2 * Math.PI * u2) as the generator
\* computes it: Math.log(0) is -Infinity, and the product of Infinity with the
\* cosine is Infinity or -Infinity (the cosine of 3 * Math.PI / 2 evaluates to a
\* negative number).
MockNormalVariate(u1, u2) ==
  IF u1 = 0 THEN (IF CosTwoPi(u2) > 0 THEN Infinity ELSE NegInfinity)
  ELSE Mul(Sqrt(-2 * Log(u1)), CosTwoPi(u2))

\* The normal branches: two draws for each value, mean 0 and std 1.
RECURSIVE MockNormal(_, _, _)
MockNormal(size, pat, k) ==
  IF size <= 0 THEN <<>>
  ELSE LET z == MockNormalVariate(Draw(pat, k), Draw(pat, k + 1))
       IN <<IF isFinite(z) THEN 0 + Mul(Scale, z) ELSE z>> \o MockNormal(size - Scale, pat, k + 2)

\* The uniform branch: a = 0, b = 1.
RECURSIVE MockUniform(_, _, _)
MockUniform(size, pat, k) ==
  IF size <= 0 THEN <<>>
  ELSE <<0 + Mul(Draw(pat, k), Scale - 0)>> \o MockUniform(size - Scale, pat, k + 1)

\* The exponential branch: -Math.log(Math.random()) / lambda with lambda = 1.
RECURSIVE MockExponential(_, _, _)
MockExponential(size, pat, k) ==
  IF size <= 0 THEN <<>>
  ELSE <<IF Draw(pat, k) = 0 THEN Infinity ELSE Div(-Log(Draw(pat, k)), Scale)>>
         \o MockExponential(size - Scale, pat, k + 1)

\* The binomial branch: n = 10, p = 0.5.
RECURSIVE MockBinomial(_, _, _)
MockBinomial(size, pat, k) ==
  IF size <= 0 THEN <<>>
  ELSE <<Scale * Successes(0, 10 * Scale, Half, pat, k)>>
         \o MockBinomial(size - Scale, pat, k + 10)

\* generateMockDataBasedOnDescription(description, size); pat is what
\* Math.random() returns meanwhile.
generateMockDataBasedOnDescription(description, size, pat) ==
  LET branch == MockBranch(description)
  IN CASE branch = "normal" -> MockNormal(size, pat, 1)
       [] branch = "uniform" -> MockUniform(size, pat, 1)
       [] branch = "exponential" -> MockExponential(size, pat, 1)
       [] OTHER -> MockBinomial(size, pat, 1)

\* The arguments Math.log is given by the generator.
RECURSIVE MockLogArguments(_, _, _, _)
MockLogArguments(branch, size, pat, k) ==
  IF size <= 0 \/ branch \notin {"normal", "exponential"} THEN <<>>
  ELSE <<Draw(pat, k)>>
         \o MockLogArguments(branch, size - Scale, pat, IF branch = "normal" THEN k + 2 ELSE k + 1)

\* The server sampler of a branch, with the parameters the branch fixes.
ServerSamplerOfBranch(branch, count, pat) ==
  CASE branch = "normal" -> generateNormal(0, Scale, count, pat, 1)
    [] branch = "uniform" -> generateUniform(0, Scale, count, pat, 1)
    [] branch = "exponential" -> generateExponential(Scale, count, pat, 1)
    [] OTHER -> generateBinomial(10 * Scale, Half, count, pat, 1)

Descriptions ==
  {<<"Generate", "random", "data", "following", "normal", "distribution">>,
   <<"Normal">>, <<"uniform">>, <<"exponential">>, <<"binomial">>, <<"poisson">>,
   <<"uniform", "or", "normal">>}

MockCalls ==
  {Apply("generateMockDataBasedOnDescription",
         [description |-> d, size |-> c * Scale, pat |-> pat]) :
     d \in Descriptions, c \in 1..MaxCount, pat \in DrawPatterns}

\* generateMockDataBasedOnDescription is called; the server sampler of the branch
\* is given the same draws.
ApplyMock ==
  /\ mounted = "functions"
  /\ last = "init"
  /\ req.fn = "generateMockDataBasedOnDescription"
  /\ LET branch == MockBranch(req.args.description)
         logs == MockLogArguments(branch, req.args.size, req.args.pat, 1)
     IN /\ res' = [data |-> generateMockDataBasedOnDescription(
                              req.args.description, req.args.size, req.args.pat),
                   server |-> ServerSamplerOfBranch(branch, req.args.size, req.args.pat)]
        /\ trace' = [j \in 1..Len(logs) |-> Step("Math.log", logs[j])]
  /\ last' = "applied"
  /\ UNCHANGED <<mounted, paired, twoSample, basic, availableDistributions, req, generator, listener>>

\* ------------------------------------------------------------------ server.js: the cumulative functions

\* The cumulative function the calculate endpoint calls for a name, at x.
Cumulative(name, q, x) ==
  CASE name = "normal" -> normalCDF(x, q.mu, q.sigma)
    [] name = "uniform" -> uniformCDF(x, q.a, q.b)
    [] name = "binomial" -> binomialCDF(x, q.n, q.p)
    [] name = "poisson" -> poissonCDF(x, q.lambda)
    [] OTHER -> exponentialCDF(x, q.lambda)

\* Whole numbers from -2 to 3, in thousandths.
NormalPoints == {j * Scale : j \in -2..3}

NormalParameters == {[mu |-> m, sigma |-> sd] : m \in {0, Scale}, sd \in {Scale, 2 * Scale}}

UniformParameters ==
  {[a |-> FracOf(ab[1]), b |-> FracOf(ab[2])] : ab \in {<<0, 1>>, <<0, 2>>, <<1, 2>>, <<-1, 3>>}}

BinomialParameters == {[n |-> n, p |-> pr] : n \in 1..MaxChoose, pr \in Probabilities}

CountPoints == -2..(MaxChoose + 2)

RateParameters == {[lambda |-> 1], [lambda |-> 2]}

ExponentialPoints == {-Scale, 0, Half, Scale, Scale + Half, 2 * Scale, 3 * Scale}

\* Two arguments x1 <= x2 of one cumulative function.
CumulativeCall(name, q, x1, x2) ==
  Apply("cumulative", [name |-> name, parameters |-> q, x1 |-> x1, x2 |-> x2])

CumulativeCalls ==
  {CumulativeCall("normal", q, xs[1], xs[2]) :
     q \in NormalParameters, xs \in {t \in NormalPoints \X NormalPoints : t[1] <= t[2]}}
    \cup
  {CumulativeCall("uniform", q, xs[1], xs[2]) :
     q \in UniformParameters,
     xs \in {t \in UniformPoints \X UniformPoints : FracLeq(t[1], t[2])}}
    \cup
  {CumulativeCall("binomial", q, xs[1], xs[2]) :
     q \in BinomialParameters, xs \in {t \in CountPoints \X CountPoints : t[1] <= t[2]}}
    \cup
  {CumulativeCall("poisson", q, xs[1], xs[2]) :
     q \in RateParameters, xs \in {t \in CountPoints \X CountPoints : t[1] <= t[2]}}
    \cup
  {CumulativeCall("exponential", q, xs[1], xs[2]) :
     q \in RateParameters,
     xs \in {t \in ExponentialPoints \X ExponentialPoints : t[1] <= t[2]}}

\* A cumulative function is evaluated at x1 and at x2.
ApplyCumulative ==
  /\ mounted = "functions"
  /\ last = "init"
  /\ req.fn = "cumulative"
  /\ res' = [at1 |-> Cumulative(req.args.name, req.args.parameters, req.args.x1),
             at2 |-> Cumulative(req.args.name, req.args.parameters, req.args.x2)]
  /\ trace' = <<>>
  /\ last' = "applied"
  /\ UNCHANGED <<mounted, paired, twoSample, basic, availableDistributions, req, generator, listener>>

\* normalCDF at the mean, for means -1, 0, 1 and standard deviations 1/2, 1, 2, 3.
NormalMeanCalls ==
  {Apply("normalCDF", [x |-> m, mu |-> m, sigma |-> sd]) :
     m \in {-Scale, 0, Scale}, sd \in {Half, Scale, 2 * Scale, 3 * Scale}}

NormalCalls ==
  NormalMeanCalls
    \cup {Apply("normalCDF", [x |-> x, mu |-> q.mu, sigma |-> q.sigma]) :
            x \in NormalPoints, q \in NormalParameters}

\* normalCDF(x, mu, sigma) is called; the value erf returned is kept.
ApplyNormalCDF ==
  /\ mounted = "functions"
  /\ last = "init"
  /\ req.fn = "normalCDF"
  /\ res' = [value |-> normalCDF(req.args.x, req.args.mu, req.args.sigma)]
  /\ trace' = <<Step("erf", erf(Div(req.args.x - req.args.mu, req.args.sigma)))>>
  /\ last' = "applied"
  /\ UNCHANGED <<mounted, paired, twoSample, basic, availableDistributions, req, generator, listener>>

\* ------------------------------------------------------------------ the functions

FunctionCalls ==
  StatsCalls \cup CombCalls \cup FactorialCalls \cup BinomialCalls \cup UniformCalls
    \cup CumulativeCalls \cup NormalCalls \cup SamplerCalls \cup MockCalls

\* A function of the server or the generator of the client is about to be
\* called with arguments drawn from the sets above.
InitFunctions ==
  /\ mounted = "functions"
  /\ last = "init"
  /\ paired = PairedInit
  /\ twoSample = TwoSampleInit
  /\ basic = BasicInit(<<>>)
  /\ trace = <<>>
  /\ availableDistributions = Catalog
  /\ req \in FunctionCalls
  /\ res = Null
  /\ generator = Null
  /\ listener = Null

NextFunctions ==
  \/ ApplyCalculateStats
  \/ ApplyComb
  \/ ApplyFactorial
  \/ ApplyBinomial
  \/ ApplyUniform
  \/ ApplyCumulative
  \/ ApplyNormalCDF
  \/ ApplySampler
  \/ ApplyMock

SpecFunctions == InitFunctions /\ [][NextFunctions]_vars

\* ------------------------------------------------------------------ properties of the functions

\* The function fn has been applied to the arguments of req.
Applied(fn) == mounted = "functions" /\ last = "applied" /\ req.fn = fn

\* s holds the elements of data, each as often as data does, in ascending order.
IsAscendingSortOf(s, data) ==
  /\ Len(s) = Len(data)
  /\ \A i \in 1..Len(s) : \A j \in i..Len(s) : s[i] <= s[j]
  /\ \A i \in 1..Len(data) :
       Cardinality({j \in 1..Len(s) : s[j] = data[i]})
         = Cardinality({j \in 1..Len(data) : data[j] = data[i]})

OneToFive == [i \in 1..5 |-> i * Scale]

\* C11: for a non-empty sample of length n calculateStats returns count n, mean
\* sum / n, the population variance, min and max as the first and last element of
\* the ascending sort, the median as the average of sorted[n/2 - 1] and sorted[n/2]
\* for even n and sorted[floor(n/2)] for odd n, q1 = sorted[floor(0.25 n)] and
\* q3 = sorted[floor(0.75 n)] (0-based); for 1, 2, 3, 4, 5: mean 3, median 3,
\* variance 2, q1 2, q3 4.
C11_CalculateStats ==
  Applied("calculateStats") =>
    LET data == req.args.data
        n == Len(data)
        sorted == SortAscending(data)
        mean == Round(SumSeq(data), n)
        st == res.first
    IN /\ IsAscendingSortOf(sorted, data)
       /\ st.count = n
       /\ st.mean = mean
       /\ st.variance = Round(SumSeq([i \in 1..n |-> Mul(data[i] - mean, data[i] - mean)]), n)
       /\ st.min = sorted[1]
       /\ st.max = sorted[n]
       /\ st.median = IF n % 2 = 0 THEN Round(sorted[n \div 2] + sorted[(n \div 2) + 1], 2)
                                   ELSE sorted[(n \div 2) + 1]
       /\ st.q1 = sorted[(n \div 4) + 1]
       /\ st.q3 = sorted[((3 * n) \div 4) + 1]
       /\ data = OneToFive =>
            /\ st.mean = 3 * Scale
            /\ st.median = 3 * Scale
            /\ st.variance = 2 * Scale
            /\ st.q1 = 2 * Scale
            /\ st.q3 = 4 * Scale

\* C11 witness: the statistics of 1, 2, 3, 4, 5 have been calculated.
C11_Witness ==
  /\ Applied("calculateStats")
  /\ req.args.data = OneToFive
  /\ res.first.count = 5
  /\ res.first.q3 = 4 * Scale

RECURSIVE Product(_)
Product(n) == IF n <= 1 THEN 1 ELSE n * Product(n - 1)

\* n! / (k! (n - k)!) for 0 <= k <= n.
Choose(n, k) == Product(n) \div (Product(k) * Product(n - k))

\* C13: comb(n, k) is 0 for k < 0 or k > n (comb(5, 7) = 0), 1 for k = 0 and
\* k = n, and for 0 < k < n it is n! / (k! (n - k)!) = comb(n, n - k), every
\* value c takes in the loop being a whole number.
C13_Comb ==
  Applied("comb") =>
    LET n == req.args.n
        k == req.args.k
    IN /\ (k < 0 \/ k > n) => res.value = FracOf(0)
       /\ (k = 0 \/ k = n) => res.value = FracOf(1)
       /\ (0 < k /\ k < n) =>
            /\ Product(n) % (Product(k) * Product(n - k)) = 0
            /\ res.value = FracOf(Choose(n, k))
            /\ res.value = res.mirrored
            /\ Len(trace) = Min(k, n - k)
            /\ \A j \in 1..Len(trace) : trace[j].arg.den = 1
       /\ (n = 5 /\ k = 7) => res.value.num = 0

\* C13 witness: comb(10, 5) has been computed in five steps.
C13_Witness ==
  /\ Applied("comb")
  /\ req.args.n = 10
  /\ req.args.k = 5
  /\ res.value = FracOf(252)
  /\ Len(trace) = 5

\* C14: factorial(n) is 0 for n < 0, 1 for n = 0 and n = 1, the product 2 * 3 *
\* ... * n for n >= 2, and n * factorial(n - 1) for every n >= 1.
C14_Factorial ==
  Applied("factorial") =>
    LET n == req.args.n
    IN /\ n < 0 => res.value = 0
       /\ n \in {0, 1} => res.value = 1
       /\ n >= 2 => res.value = Product(n)
       /\ n >= 1 => res.value = n * res.previous

\* C14 witness: factorial(5) has been computed.
C14_Witness ==
  /\ Applied("factorial")
  /\ req.args.n = 5
  /\ res.value = 120
  /\ res.previous = 24

\* The binomial mass at i, 0 <= i <= n.
BinomialMass(i, n, p) ==
  FracMul(FracOf(Choose(n, i)), FracMul(FracPow(p, i), FracPow(FracSub(FracOf(1), p), n - i)))

\* The sum of the binomial mass over max(i, 0)..min(k, n).
RECURSIVE BinomialMassUpTo(_, _, _, _)
BinomialMassUpTo(i, k, n, p) ==
  IF i > k \/ i > n THEN FracOf(0)
  ELSE FracAdd(BinomialMass(i, n, p), BinomialMassUpTo(i + 1, k, n, p))

CumulativeLeq(name, v, w) ==
  IF name \in {"uniform", "binomial"} THEN FracLeq(v, w) ELSE v <= w

\* 0 <= v <= 1 for a value of the cumulative function of a name.
InUnitInterval(name, v) ==
  CASE name \in {"uniform", "binomial"} -> FracLeq(FracOf(0), v) /\ FracLeq(v, FracOf(1))
    [] name = "normal" -> 0 <= v /\ v <= 2 * Nano
    [] OTHER -> 0 <= v /\ v <= Micro

C17_Uniform ==
  Applied("uniform") =>
    LET x == req.args.x
        a == req.args.a
        b == req.args.b
        inside == FracLeq(a, x) /\ FracLeq(x, b)
    IN /\ res.pdf = IF inside THEN FracDiv(FracOf(1), FracSub(b, a)) ELSE FracOf(0)
       /\ FracLess(x, a) => res.cdf = FracOf(0)
       /\ FracLess(b, x) => res.cdf = FracOf(1)
       /\ inside => res.cdf = FracDiv(FracSub(x, a), FracSub(b, a))
       /\ x = a => res.cdf = FracOf(0)
       /\ x = b => res.cdf = FracOf(1)
       /\ (a = FracOf(0) /\ b = FracOf(1) /\ inside) => res.pdf = FracOf(1)
       /\ (a = FracOf(0) /\ b = FracOf(1) /\ x = Frac(1, 2)) => res.cdf = Frac(1, 2)

\* C17 witness: the uniform(0, 1) functions have been evaluated at the upper end
\* point.
C17_Witness ==
  /\ Applied("uniform")
  /\ req.args.a = FracOf(0)
  /\ req.args.b = FracOf(1)
  /\ req.args.x = FracOf(1)
  /\ res.pdf = FracOf(1)
  /\ res.cdf = FracOf(1)

\* C18: at x = mu erf returns 1 - (a1 + a2 + a3 + a4 + a5), which is at most
\* 1.5e-7 in absolute value, so normalCDF(mu, mu, sigma) differs from 0.5 by at
\* most 7.5e-8, for every sigma > 0.
C18_NormalCDFAtMean ==
  (Applied("normalCDF") /\ req.args.x = req.args.mu) =>
    /\ trace[1].arg = Nano - (a1 + a2 + a3 + a4 + a5)
    /\ Abs(trace[1].arg) <= 150
    /\ Abs(res.value - Nano) <= 150

\* C18 witness: normalCDF has been evaluated at the mean 1 with sigma = 0.5.
C18_Witness ==
  /\ Applied("normalCDF")
  /\ req.args.x = Scale
  /\ req.args.mu = Scale
  /\ req.args.sigma = Half
  /\ res.value = Nano + 1

\* C19: generateNormal and generateExponential never give Math.log the argument
\* 0 (its arguments lie in (0, 1]), one logarithm is taken for each variate, every
\* variate is finite and every exponential variate is >= 0.
C19_NoLogOfZero ==
  Applied("sampler") =>
    /\ Len(trace) * Scale = req.args.count
    /\ Len(res.data) = Len(trace)
    /\ \A j \in 1..Len(trace) : 0 < trace[j].arg /\ trace[j].arg <= Scale
    /\ \A j \in 1..Len(res.data) :
         /\ isFinite(res.data[j])
         /\ req.args.name = "exponential" => res.data[j] >= 0

\* C19 witness: generateNormal has drawn a 0 first and returned a variate.
C19_Witness ==
  /\ Applied("sampler")
  /\ req.args.name = "normal"
  /\ req.args.pat[1] = 0
  /\ Len(res.data) >= 1
  /\ trace[1].arg # 0

\* C20: each branch of generateMockDataBasedOnDescription returns, for the same
\* draws, the data of the server sampler with the branch's parameters, and never
\* takes the logarithm of a draw that is 0.
C20_MockIsServerSampler ==
  Applied("generateMockDataBasedOnDescription") =>
    /\ res.data = res.server
    /\ \A j \in 1..Len(trace) : trace[j].arg # 0

\* ------------------------------------------------------------------ AIDataGenerator: the component

\* The component as written (lines 1-171) and as compiled (lines 521-622).
GeneratorBuilds == {"source", "compiled"}

DefaultDescription == <<"Generate", "random", "data", "following", "normal", "distribution">>

\* useState initial values; no timer is pending and onDataChange has not been
\* called.  A description is the list of its words, sizes are fixed-point numbers.
GeneratorInit(build) ==
  [build |-> build, sampleSize |-> 1000 * Scale, dataDescription |-> DefaultDescription,
   isGenerating |-> FALSE, errorMessage |-> "", timers |-> <<>>, delivered |-> Null]

\* What the textarea is given: the default, one keyword, white space only.
GeneratorDescriptions == {DefaultDescription, <<"uniform">>, <<>>}

\* What the sample size field holds after a change.
SizeTexts == {"", "-5", "0", "3", "12"}

\* parseInt(e.target.value) on the numerals of the field.
parseInt(text) == parseFloat(text)

\* onChange of the sample size Input: the component as written keeps a value of
\* 10 to 10000 only, the compiled one any parsed integer, and 0 for an empty field.
SampleSizeAfterChange(build, sampleSize, text) ==
  LET val == parseInt(text)
  IN IF build = "source"
       THEN (IF ~isNaN(val) /\ val >= 10 * Scale /\ val <= 10000 * Scale THEN val
             ELSE sampleSize)
     ELSE IF text = "" THEN 0
     ELSE IF ~isNaN(val) THEN val
     ELSE sampleSize

\* The size handleGenerate passes on: sampleSize as written, safeSampleSize as
\* compiled (a number is none of '', null, undefined).
SizeUsed(build, sampleSize) ==
  IF build = "compiled" /\ sampleSize = 0 THEN Scale ELSE sampleSize

\* !dataDescription.trim(): a description of white space only has no words.
Blank(description) == description = <<>>

\* The length of generateMockDataBasedOnDescription(description, size): every
\* branch pushes one element for each i = 0, 1, ... below size.
MockDataLength(description, size) ==
  IF size <= 0 THEN 0 ELSE (size + Scale - 1) \div Scale

\* handleGenerate on component state g; the timer keeps the description and the
\* size of the render it was started in.
GeneratorHandleGenerate(g) ==
  IF Blank(g.dataDescription)
    THEN [g EXCEPT !.errorMessage = "Please enter data description"]
    ELSE [g EXCEPT !.isGenerating = TRUE, !.errorMessage = "",
                   !.timers = Append(@, [description |-> g.dataDescription,
                                         size |-> SizeUsed(g.build, g.sampleSize)])]

\* The textarea is changed.
GeneratorSetDescription ==
  /\ mounted = "AIDataGenerator"
  /\ \E d \in GeneratorDescriptions : generator' = [generator EXCEPT !.dataDescription = d]
  /\ last' = "edit"
  /\ trace' = <<>>
  /\ UNCHANGED <<mounted, paired, twoSample, basic, availableDistributions, req, res, listener>>

\* The sample size field is changed.
GeneratorSetSampleSize ==
  /\ mounted = "AIDataGenerator"
  /\ \E text \in SizeTexts :
       generator' = [generator EXCEPT
                       !.sampleSize = SampleSizeAfterChange(generator.build, @, text)]
  /\ last' = "edit"
  /\ trace' = <<>>
  /\ UNCHANGED <<mounted, paired, twoSample, basic, availableDistributions, req, res, listener>>

\* The button is clicked; isLoading={isGenerating} disables it while a
\* generation is under way.
GeneratorClick ==
  /\ mounted = "AIDataGenerator"
  /\ ~generator.isGenerating
  /\ generator' = GeneratorHandleGenerate(generator)
  /\ last' = "handleGenerate"
  /\ trace' = <<>>
  /\ UNCHANGED <<mounted, paired, twoSample, basic, availableDistributions, req, res, listener>>

\* What the timer callback meets: generation and onDataChange return, or one
\* of them throws.
GeneratorTimerOutcomes == {"returned", "generation threw", "onDataChange threw"}

\* The callback of a timer on component state g with that outcome: try, catch,
\* finally.
GeneratorTimerCallback(g, outcome) ==
  LET timer == Head(g.timers)
      call == [length |-> MockDataLength(timer.description, timer.size),
               sampleSize |-> timer.size, descriptionLength |-> Len(timer.description)]
  IN [g EXCEPT !.timers = Tail(@),
               !.delivered = IF outcome = "generation threw" THEN @ ELSE call,
               !.errorMessage = IF outcome = "returned" THEN @ ELSE "thrown message",
               !.isGenerating = FALSE]

\* Mutant: isGenerating is reset at the end of the try block.
GeneratorTimerFiresWithoutFinally ==
  /\ mounted = "AIDataGenerator"
  /\ generator.timers # <<>>
  /\ \E outcome \in GeneratorTimerOutcomes :
       LET after == GeneratorTimerCallback(generator, outcome)
       IN /\ generator' = [after EXCEPT !.isGenerating = IF outcome = "returned" THEN FALSE
                                                         ELSE generator.isGenerating]
          /\ trace' = IF outcome = "generation threw" THEN <<>>
                      ELSE <<Step("onDataChange", after.delivered.length * Scale)>>
  /\ last' = "timer"
  /\ UNCHANGED <<mounted, paired, twoSample, basic, availableDistributions, req, res, listener>>

\* The 2-second timer fires.
GeneratorTimerFires ==
  /\ mounted = "AIDataGenerator"
  /\ generator.timers # <<>>
  /\ \E outcome \in GeneratorTimerOutcomes :
       LET after == GeneratorTimerCallback(generator, outcome)
       IN /\ generator' = after
          /\ trace' = IF outcome = "generation threw" THEN <<>>
                      ELSE <<Step("onDataChange", after.delivered.length * Scale)>>
  /\ last' = "timer"
  /\ UNCHANGED <<mounted, paired, twoSample, basic, availableDistributions, req, res, listener>>

InitGenerator ==
  /\ mounted = "AIDataGenerator"
  /\ last = "init"
  /\ paired = PairedInit
  /\ twoSample = TwoSampleInit
  /\ basic = BasicInit(<<>>)
  /\ trace = <<>>
  /\ availableDistributions = <<>>
  /\ req = Null
  /\ res = Null
  /\ \E build \in GeneratorBuilds : generator = GeneratorInit(build)
  /\ listener = Null

NextGenerator ==
  \/ GeneratorSetDescription
  \/ GeneratorSetSampleSize
  \/ GeneratorClick
  \/ GeneratorTimerFires

\* A timer that has been started fires.
SpecGenerator == InitGenerator /\ [][NextGenerator]_vars /\ WF_vars(GeneratorTimerFires)

\* ------------------------------------------------------------------ server.js: startServer

\* The port startServer is first called with.
port == 8888

\* The retries that are followed: the ports port .. port + MaxPorts.
MaxPorts == 4

Ports == port..(port + MaxPorts)

\* What app.listen meets on a port: it is free, or the 'error' event carries
\* one of these codes.
ListenErrors == {"EADDRINUSE", "EACCES"}

\* The machine's ports while the server starts; the highest one is free.
PortTables == {t \in [Ports -> {"free"} \cup ListenErrors] : t[port + MaxPorts] = "free"}

\* The port of the latest call of app.listen.
Pending(l) == l.attempts[Len(l.attempts)]

\* startServer(serverPort) on a listener l: the calls of app.listen so far, with
\* the outcome of the latest one awaited, and the console.
startServer(l, serverPort) ==
  [l EXCEPT !.attempts = Append(@, serverPort), !.state = "pending"]

\* startServer(port) at the end of the module.
ListenerInit(ports) ==
  startServer([ports |-> ports, attempts |-> <<>>, state |-> "pending", log |-> <<>>], port)

\* Mutant: every error is answered by a try on the next port.
OnErrorAlwaysRetrying(l, code) ==
  startServer([l EXCEPT !.log = Append(@, [level |-> "log", text |-> "in use, trying",
                                           port |-> Pending(l)])],
              Pending(l) + 1)

\* The 'error' handler of the pending call.
OnError(l, code) ==
  IF code = "EADDRINUSE"
    THEN startServer([l EXCEPT !.log = Append(@, [level |-> "log", text |-> "in use, trying",
                                                  port |-> Pending(l)])],
                     Pending(l) + 1)
    ELSE [l EXCEPT !.log = Append(@, [level |-> "error", text |-> "Failed to start server",
                                      port |-> Pending(l)]),
                   !.state = "failed"]

\* The listen callback of the pending call.
OnListening(l) ==
  [l EXCEPT !.log = Append(@, [level |-> "log", text |-> "Server is running",
                               port |-> Pending(l)]),
            !.state = "listening"]

\* The pending port is free: the server listens.
ListenSucceeds ==
  /\ mounted = "startServer"
  /\ listener.state = "pending"
  /\ listener.ports[Pending(listener)] = "free"
  /\ listener' = OnListening(listener)
  /\ last' = "listening"
  /\ UNCHANGED <<mounted, paired, twoSample, basic, trace, availableDistributions, req, res, generator>>

\* The pending port is in use.
ListenInUse ==
  /\ mounted = "startServer"
  /\ listener.state = "pending"
  /\ listener.ports[Pending(listener)] = "EADDRINUSE"
  /\ listener' = OnError(listener, "EADDRINUSE")
  /\ last' = "error"
  /\ UNCHANGED <<mounted, paired, twoSample, basic, trace, availableDistributions, req, res, generator>>

\* The pending call fails with another error.
ListenFails ==
  /\ mounted = "startServer"
  /\ listener.state = "pending"
  /\ listener.ports[Pending(listener)] \in ListenErrors \ {"EADDRINUSE"}
  /\ listener' = OnError(listener, listener.ports[Pending(listener)])
  /\ last' = "error"
  /\ UNCHANGED <<mounted, paired, twoSample, basic, trace, availableDistributions, req, res, generator>>

InitStart ==
  /\ mounted = "startServer"
  /\ last = "init"
  /\ paired = PairedInit
  /\ twoSample = TwoSampleInit
  /\ basic = BasicInit(<<>>)
  /\ trace = <<>>
  /\ availableDistributions = <<>>
  /\ req = Null
  /\ res = Null
  /\ generator = Null
  /\ \E ports \in PortTables : listener = ListenerInit(ports)

NextStart ==
  \/ ListenSucceeds
  \/ ListenInUse
  \/ ListenFails

\* Every call of app.listen ends in its callback or in an 'error' event.
SpecStart == InitStart /\ [][NextStart]_vars /\ WF_vars(NextStart)

\* ------------------------------------------------------------------ properties of AIDataGenerator

\* isGenerating is true exactly while a timer is pending, and one at most is.
GeneratingWhileTimerPending ==
  /\ generator.isGenerating = (generator.timers # <<>>)
  /\ Len(generator.timers) <= 1

\* handleGenerate has just run on a blank description: the message is shown, no
\* timer has been started and onDataChange has not been called.
BlankRefused ==
  (last = "handleGenerate" /\ Blank(generator.dataDescription)) =>
    /\ ~generator.isGenerating
    /\ generator.errorMessage = "Please enter data description"
    /\ generator.timers = <<>>
    /\ trace = <<>>

\* handleGenerate has just run on a description that is not blank.
GenerationStarted ==
  (last = "handleGenerate" /\ ~Blank(generator.dataDescription)) =>
    /\ generator.isGenerating
    /\ generator.errorMessage = ""
    /\ Len(generator.timers) = 1

\* C28: after handleGenerate with a description that is not blank isGenerating is
\* true until the 2-second timer fires and eventually false, whether generation
\* and onDataChange return or throw; with a blank description isGenerating is
\* unchanged, an error message is set, no timer is started and onDataChange is
\* not called.
C28_GeneratingUntilTimer ==
  /\ [](mounted = "AIDataGenerator" =>
          GeneratingWhileTimerPending /\ BlankRefused /\ GenerationStarted)
  /\ [](last = "timer" => ~generator.isGenerating)
  /\ (generator.isGenerating ~> ~generator.isGenerating)

\* C28 witness: the timer has fired, onDataChange has thrown, and isGenerating is
\* false.
C28_Witness ==
  /\ mounted = "AIDataGenerator"
  /\ last = "timer"
  /\ generator.errorMessage = "thrown message"
  /\ trace # <<>>
  /\ ~generator.isGenerating

\* handleGenerate has refused a blank description.
C28_BlankWitness ==
  /\ mounted = "AIDataGenerator"
  /\ last = "handleGenerate"
  /\ Blank(generator.dataDescription)
  /\ generator.errorMessage = "Please enter data description"
  /\ generator.delivered = Null

\* C29: in the compiled component the size handleGenerate passes to
\* generateMockDataBasedOnDescription is at least 1 for every value sampleSize can
\* hold, and the data handed to onDataChange has exactly that many elements.
C29_SafeSampleSize ==
  (mounted = "AIDataGenerator" /\ generator.build = "compiled") =>
    /\ \A i \in 1..Len(generator.timers) : generator.timers[i].size >= Scale
    /\ generator.delivered # Null =>
         /\ generator.delivered.sampleSize >= Scale
         /\ generator.delivered.length * Scale = generator.delivered.sampleSize

\* ------------------------------------------------------------------ properties of startServer

\* The lowest free port from 8888 on.
LowestFreePort == CHOOSE p \in Ports : listener.ports[p] = "free" /\ \A q \in port..(p - 1) : listener.ports[q] # "free"

\* The attempts are 8888, 8889, ... in this order, each after the one before
\* was found in use.
AttemptsInOrder ==
  /\ Len(listener.attempts) >= 1
  /\ \A i \in 1..Len(listener.attempts) : listener.attempts[i] = port + i - 1
  /\ \A i \in 1..(Len(listener.attempts) - 1) : listener.ports[listener.attempts[i]] = "EADDRINUSE"

\* Where the attempts end: listening on the lowest free port, or an error other
\* than EADDRINUSE on the last port tried, which is logged.
AttemptsEnd ==
  /\ listener.state = "listening" => Pending(listener) = LowestFreePort
  /\ listener.state = "failed" =>
       /\ listener.ports[Pending(listener)] \in ListenErrors \ {"EADDRINUSE"}
       /\ listener.log[Len(listener.log)].level = "error"
       /\ listener.log[Len(listener.log)].port = Pending(listener)

\* One step of the port retry: EADDRINUSE on p gives exactly one new attempt, on
\* p + 1; the callback and any other error give none and end the retries.
RetryStep ==
  mounted = "startServer" =>
    IF listener.ports[Pending(listener)] = "EADDRINUSE"
      THEN listener'.attempts = Append(listener.attempts, Pending(listener) + 1)
      ELSE listener'.attempts = listener.attempts /\ listener'.state # "pending"

\* C30: from 8888 each EADDRINUSE on port p causes exactly one new attempt on
\* p + 1, so the ports tried are strictly increasing and none is tried twice; the
\* process ends listening on the lowest free port from 8888 on; any other error
\* is logged and no further attempt is made.
C30_PortRetry ==
  /\ [](mounted = "startServer" => AttemptsInOrder /\ AttemptsEnd)
  /\ [][RetryStep]_vars
  /\ <>[](mounted = "startServer" => listener.state # "pending")
  /\ ((mounted = "startServer" /\ \A q \in port..(LowestFreePort - 1) : listener.ports[q] = "EADDRINUSE")
        ~> (listener.state = "listening" /\ Pending(listener) = LowestFreePort))

\* C30 witness: the server listens after two ports were found in use.
C30_Witness ==
  /\ mounted = "startServer"
  /\ listener.state = "listening"
  /\ listener.attempts = <<port, port + 1, port + 2>>

\* A port in use was followed by a port that gave another error: it is the last.
C30_OtherErrorWitness ==
  /\ mounted = "startServer"
  /\ listener.state = "failed"
  /\ listener.attempts = <<port, port + 1>>
  /\ listener.ports[port + 2] = "free"

====
